---- MODULE Spec2Model ----
(***************************************************************************)
(* Rolling-window ledger synchronisation: the weekly append job            *)
(* (scripts/update_competitor_sheets.py) and the standalone freeze job     *)
(* (scripts/freeze_master_values.py) acting on one remote spreadsheet.     *)
(*                                                                         *)
(* The remote grid is kept sparsely: a tab is a function from the          *)
(* positions <<column, row>> of its non-empty cells to their content.      *)
(* A values.get answers with the non-empty cells of the range only (the    *)
(* service omits empty trailing rows and returns [] for an empty row of a  *)
(* one-column range), and a values.update leaves every cell it is given    *)
(* no value for unchanged.  A request that fails has no effect on the      *)
(* grid.  Formulas always compute a non-empty value.                       *)
(***************************************************************************)
EXTENDS Integers, Sequences, FiniteSets, TLC

(* ---------------------------------------------------------------------- *)
(* Bounds of the model                                                     *)
(* ---------------------------------------------------------------------- *)
MaxFails == 3
MaxJobs == 2
MaxIndex == 703
MaxFiles == 2
MaxMetaRows == 4

(* ---------------------------------------------------------------------- *)
(* Program constants                                                       *)
(* ---------------------------------------------------------------------- *)
RETRY_COUNT == 3

(* config["master_tabs"], in configuration order *)
master_tabs == <<"T1", "T2">>
Tabs == {master_tabs[i] : i \in 1..Len(master_tabs)}

(* config["mappings"]: the target_tab of each mapping, in configuration    *)
(* order; the formulas of the master tabs refer to the first               *)
mappings == <<"S1", "S2">>
Targets == {mappings[i] : i \in 1..Len(mappings)}

(* ---------------------------------------------------------------------- *)
(* Column codec.  A label is a sequence of character codes.                *)
(* ---------------------------------------------------------------------- *)
Upper(ch) == IF ch >= 97 /\ ch <= 122 THEN ch - 32 ELSE ch

RECURSIVE A1Acc(_, _, _)
A1Acc(a1, i, result) ==
    IF i > Len(a1) THEN result
    ELSE LET ch == Upper(a1[i])
         IN  IF ~(65 <= ch /\ ch <= 90) THEN result
             ELSE A1Acc(a1, i + 1, result * 26 + (ch - 64))

a1_to_col(a1) == A1Acc(a1, 1, 0)

Reversed(s) == [i \in 1..Len(s) |-> s[Len(s) + 1 - i]]

RECURSIVE ColAccZeroBased(_, _)
ColAccZeroBased(index, letters) ==
    IF index > 0
    THEN ColAccZeroBased(index \div 26, Append(letters, 65 + (index % 26)))
    ELSE Reversed(letters)

RECURSIVE ColAcc(_, _)
ColAcc(index, letters) ==
    IF index > 0
    THEN ColAcc((index - 1) \div 26, Append(letters, 65 + ((index - 1) % 26)))
    ELSE Reversed(letters)

col_to_a1(index) == ColAcc(index, <<>>)

(* str(value).strip().upper() of a metadata cell *)
RECURSIVE LStrip(_)
LStrip(s) == IF Len(s) > 0 /\ s[1] = 32 THEN LStrip(Tail(s)) ELSE s

Strip(s) == Reversed(LStrip(Reversed(LStrip(s))))

UpperStr(s) == [i \in 1..Len(s) |-> Upper(s[i])]

(* ---------------------------------------------------------------------- *)
(* Cells of the remote grid and the values that travel in requests.        *)
(*   cell  "F" x : formula with text x      "L" x : literal x              *)
(*         "S" x : literal string "=x"      "E"   : empty                  *)
(*   wire  "T" x : the string "=x"          "N" x : the value x            *)
(* ---------------------------------------------------------------------- *)
Empty == [k |-> "E", x |-> 0]
Fml(f) == [k |-> "F", x |-> f]
Lit(v) == [k |-> "L", x |-> v]

(* the value a formula computes depends on the staging tab it refers to *)
Eval(f, st) == 10 * f + st

(* valueRenderOption = FORMULA / UNFORMATTED_VALUE *)
Render(cell, mode, st) ==
    CASE cell.k = "F" -> IF mode = "FORMULA" THEN [k |-> "T", x |-> cell.x]
                         ELSE [k |-> "N", x |-> Eval(cell.x, st)]
      [] cell.k = "S" -> [k |-> "T", x |-> cell.x]
      [] OTHER        -> [k |-> "N", x |-> cell.x]

(* valueInputOption = USER_ENTERED / RAW *)
Enter(w, mode) ==
    IF w.k = "T"
    THEN IF mode = "USER_ENTERED" THEN Fml(w.x) ELSE [k |-> "S", x |-> w.x]
    ELSE Lit(w.x)

CellAt(g, c, r) == IF <<c, r>> \in DOMAIN g THEN g[<<c, r>>] ELSE Empty

(* values.get over columns cs, rows a..b: the non-empty cells, addressed   *)
(* relative to the top-left corner of the range                            *)
GetValues(g, cs, a, b, mode, st) ==
    LET c0 == IF cs = {} THEN 1 ELSE CHOOSE c \in cs : \A d \in cs : c <= d
        ps == {p \in DOMAIN g : p[1] \in cs /\ p[2] >= a /\ p[2] <= b}
        os == {<<p[1] - c0, p[2] - a>> : p \in ps}
    IN  [o \in os |-> Render(g[<<o[1] + c0, o[2] + a>>], mode, st)]

(* values.update anchored at column c, row r *)
UpdateValues(g, c, r, vals, mode) ==
    LET ps == {<<o[1] + c, o[2] + r>> : o \in DOMAIN vals}
    IN  [p \in (DOMAIN g) \cup ps |->
            IF p \in ps THEN Enter(vals[<<p[1] - c, p[2] - r>>], mode) ELSE g[p]]

PasteNormal(g, c, a, b, st) == g

(* copyPaste of a range onto itself with PASTE_VALUES *)
PasteValues(g, c, a, b, st) ==
    [p \in DOMAIN g |->
        IF p[1] = c /\ p[2] >= a /\ p[2] <= b
        THEN Enter(Render(g[p], "UNFORMATTED_VALUE", st), "RAW")
        ELSE g[p]]

(* effective_rows = min(row_count, max_rows) if max_rows > 0 else row_count *)
Min(a, b) == IF a < b THEN a ELSE b
Max(a, b) == IF a > b THEN a ELSE b
EffectiveRowsMax(row_count, max_rows) ==
    IF max_rows > 0 THEN Max(row_count, max_rows) ELSE row_count
EffectiveRows(row_count, max_rows) ==
    IF max_rows > 0 THEN Min(row_count, max_rows) ELSE row_count

(* columns the range "'tab'!{prev_col_letter}{a}:{prev_col_letter}{b}"     *)
(* denotes: one column, or whole rows when the letter is empty             *)
RangeCols(col_index, column_count) ==
    IF col_to_a1(col_index) = <<>> THEN 1..column_count ELSE {col_index}

(* ---------------------------------------------------------------------- *)
(* update_master_tab as a function of the grid: the plan it computes and   *)
(* the effect of its requests when none of them fails                      *)
(* ---------------------------------------------------------------------- *)
NewColIndexGap(last_date_col) == a1_to_col(last_date_col) + 2
NewColIndex(last_date_col) == a1_to_col(last_date_col) + 1

(* prev_col_letter = col_to_a1(prev_col_index + 1): the metadata column *)
PrevColIndex(last_date_col) == (a1_to_col(last_date_col) - 1) + 1

(* the chunk size as configured *)
ChunkOfAsConfigured(chunk_size) == chunk_size
ChunkOf(chunk_size) == Max(1, chunk_size)

ChunkEndLong(r, chunk_size, data_end_row) ==
    Min(r + ChunkOf(chunk_size) + 1, data_end_row)
ChunkEnd(r, chunk_size, data_end_row) == Min(r + ChunkOf(chunk_size), data_end_row)

(* column a write to "'tab'!{letter}{row}" is anchored at *)
AnchorCol(col_index) == IF col_to_a1(col_index) = <<>> THEN 1 ELSE col_index

WriteHeader(g, new_col_index, monday_str) ==
    UpdateValues(g, new_col_index, 1,
                 [o \in {<<0, 0>>} |-> [k |-> "N", x |-> monday_str]], "RAW")

CopyFormulas(g, last_date_col, column_count, a, b, st) ==
    UpdateValues(g, NewColIndex(last_date_col), a,
        GetValues(g, RangeCols(PrevColIndex(last_date_col), column_count),
                  a, b, "FORMULA", st),
        "USER_ENTERED")

FreezeValues(g, last_date_col, column_count, a, b, st) ==
    UpdateValues(g, AnchorCol(PrevColIndex(last_date_col)), a,
        GetValues(g, RangeCols(PrevColIndex(last_date_col), column_count),
                  a, b, "UNFORMATTED_VALUE", st),
        "RAW")

RECURSIVE CopyLoop(_, _, _, _, _, _, _, _)
CopyLoop(g, last_date_col, column_count, r, data_end_row, chunk_size, freeze, st) ==
    IF r < data_end_row
    THEN LET e  == ChunkEnd(r, chunk_size, data_end_row)
             g1 == CopyFormulas(g, last_date_col, column_count, r + 1, e, st)
             g2 == IF freeze
                   THEN FreezeValues(g1, last_date_col, column_count, r + 1, e, st)
                   ELSE g1
         IN  CopyLoop(g2, last_date_col, column_count, e, data_end_row,
                      chunk_size, freeze, st)
    ELSE g

(* grid of the tab after a complete update_master_tab *)
FullAppend(g, last_date_col, row_count, column_count, max_rows, chunk_size, freeze, monday_str, st) ==
    IF EffectiveRows(row_count, max_rows) <= 1 THEN g
    ELSE CopyLoop(WriteHeader(g, NewColIndex(last_date_col), monday_str),
                  last_date_col, column_count, 1,
                  EffectiveRows(row_count, max_rows), chunk_size, freeze, st)

(* label update_master_tab returns *)
AppendLabel(last_date_col, row_count, max_rows) ==
    IF EffectiveRows(row_count, max_rows) <= 1 THEN last_date_col
    ELSE col_to_a1(NewColIndex(last_date_col))

(* ---------------------------------------------------------------------- *)
(* State                                                                   *)
(* ---------------------------------------------------------------------- *)
VARIABLES
    grid,         \* remote: tab -> (<<column, row>> of a non-empty cell -> cell)
    colCount,     \* remote: tab -> gridProperties.columnCount
    rowCount,     \* remote: tab -> gridProperties.rowCount
    metaCell,     \* remote: tab -> content of the tab's cell in the metadata sheet
    titles,       \* remote: titles of the tabs the spreadsheet has
    stage,        \* remote: content of the staging tab the formulas refer to
    stage2,       \* remote: content of the staging tab of the second mapping
    stageRest,    \* remote: staging tab -> content of its row below the first
    source,       \* remote: content of the source sheet of the mapping
    cfg,          \* configuration and environment of the jobs
    today,        \* get_week_monday_str()
    job,          \* "none", "update" or "freeze": the job started last
    pc,           \* position of the running job, "idle" when none runs
    attempt,      \* main: attempt
    exitCode,     \* exit status of the job that ended last, -1 before
    sheet_props,  \* run_update / run_freeze: sheet_props
    master_meta,  \* run_update: master_meta, run_freeze: meta_map
    tabIdx,       \* position of the loop over the tabs
    mapIdx,       \* run_update: position of the loop over mappings
    row,          \* update_master_tab / run_freeze: row
    formulas,     \* update_master_tab: formulas
    values,       \* update_master_tab: values, run_update: values
    new_col,      \* run_update: new_col
    fails,        \* number of failed requests so far
    jobs,         \* number of jobs started so far
    grid0,        \* history: grid when the running job started
    meta0,        \* history: metaCell when the running job started
    log,          \* history: requests answered for the current tab in this attempt
    metaWrites,   \* history: tab -> metadata writes during the running job
    failedTabs,   \* history: tabs with a failed append request during the job
    arg,          \* a call of a function on its own: the function and its arguments
    ret           \* a call of a function on its own: the values returned so far

vars == <<grid, colCount, rowCount, titles, metaCell, stage, stage2, stageRest, source, cfg,
          today, job, pc,
          attempt, exitCode, sheet_props, master_meta, tabIdx, mapIdx, row, formulas,
          values, new_col, fails, jobs, grid0, meta0, log, metaWrites, failedTabs,
          arg, ret>>

remote == <<grid, colCount, rowCount, titles, metaCell, stage, stage2, stageRest, source>>
locals == <<sheet_props, master_meta, tabIdx, mapIdx, row, formulas, values, new_col>>
history == <<grid0, meta0, log, metaWrites, failedTabs>>
calls == <<arg, ret>>

NoVals == [o \in {} |-> 0]

(* ---------------------------------------------------------------------- *)
(* Initial states: a ledger as earlier runs left it                        *)
(* ---------------------------------------------------------------------- *)
HeaderOf(c) == Lit(100 + c)

(* a tab: metadata cell, declared size, data rows 2.. of its live column *)
Tab(label, cols, rows, tpl) ==
    [label |-> label, cols |-> cols, rows |-> rows, tpl |-> tpl]

(* the column the metadata names and the one before it hold the template;  *)
(* a tab whose metadata names no column holds it in its first two columns  *)
InitTab(p) ==
    LET last == a1_to_col(UpperStr(Strip(p.label)))
        cs   == IF last >= 1 THEN {c \in {last - 1, last} : c >= 1} ELSE {1, 2}
        ps   == {<<c, 1>> : c \in cs}
                \cup {<<c, r>> : c \in cs, r \in {q \in 2..p.rows :
                                    q - 1 <= Len(p.tpl) /\ p.tpl[q - 1] # Empty}}
    IN  [q \in ps |-> IF q[2] = 1 THEN HeaderOf(q[1]) ELSE p.tpl[q[2] - 1]]

AllFormulas == <<Fml(1), Fml(2), Fml(3)>>

(* rows 2..50 of the tab "Prices" *)
PricesTemplate ==
    [i \in 1..49 |->
        IF i \in {1, 21, 49} THEN Fml(1) ELSE IF i = 20 THEN Lit(7) ELSE Empty]

Small == Tab(<<66>>, 2, 2, <<Fml(1)>>)

(* what the selected source sheet may hold: no rows, one value, or two    *)
(* rows of one value                                                       *)
NoRows == NoVals
OneValue == [o \in {<<0, 0>>} |-> [k |-> "N", x |-> 2]]
TwoValues == [o \in {<<0, 0>>, <<1, 0>>} |-> [k |-> "N", x |-> 2 + o[1]]]

(* ledgers and configurations the jobs are run on: the tabs in the order   *)
(* of master_tabs, master_chunk_size, master_max_rows,                     *)
(* master_freeze_chunk_size, the settings of MASTER_FREEZE_VALUES, the     *)
(* content of the source sheet, the rows target_range covers               *)
Scenarios ==
    { \* metadata "B", three data rows, chunks of two rows
      [tabs |-> <<Tab(<<66>>, 2, 4, AllFormulas), Small>>,
       chunk_size |-> 2, max_rows |-> 0, freeze_chunk |-> 1,
       freeze |-> {FALSE}, source |-> OneValue, absent |-> {}, target_rows |-> 1],
      \* a ceiling of three rows, chunk size 0, an empty cell and a literal
      [tabs |-> <<Tab(<<66>>, 3, 4, <<Fml(1), Empty, Lit(7)>>), Tab(<<67>>, 4, 1, << >>)>>,
       chunk_size |-> 0, max_rows |-> 3, freeze_chunk |-> 2,
       freeze |-> BOOLEAN, source |-> NoRows, absent |-> {}, target_rows |-> 1],
      \* "Prices": 10 columns, metadata "J", 50 rows, chunks of 20 rows
      [tabs |-> <<Tab(<<74>>, 10, 50, PricesTemplate), Tab(<<67>>, 4, 1, << >>)>>,
       chunk_size |-> 20, max_rows |-> 0, freeze_chunk |-> 20,
       freeze |-> {FALSE}, source |-> NoRows, absent |-> {}, target_rows |-> 2],
      \* metadata " z": the new column is "AA"
      [tabs |-> <<Tab(<<32, 122>>, 27, 3, AllFormulas), Tab(<<67>>, 4, 1, << >>)>>,
       chunk_size |-> 2, max_rows |-> 0, freeze_chunk |-> 2,
       freeze |-> {TRUE}, source |-> NoRows, absent |-> {}, target_rows |-> 2],
      \* a tab with a header row only, master_freeze_chunk_size 0
      [tabs |-> <<Tab(<<67>>, 4, 1, << >>), Small>>,
       chunk_size |-> 2, max_rows |-> 0, freeze_chunk |-> 0,
       freeze |-> {FALSE}, source |-> OneValue, absent |-> {}, target_rows |-> 2],
      \* metadata "1": the label names no column
      [tabs |-> <<Tab(<<49>>, 2, 3, AllFormulas), Small>>,
       chunk_size |-> 2, max_rows |-> 0, freeze_chunk |-> 2,
       freeze |-> {FALSE}, source |-> NoRows, absent |-> {}, target_rows |-> 2],
      \* a tab without metadata
      [tabs |-> <<Small, Tab(<< >>, 2, 3, AllFormulas)>>,
       chunk_size |-> 2, max_rows |-> 0, freeze_chunk |-> 2,
       freeze |-> {FALSE}, source |-> NoRows, absent |-> {}, target_rows |-> 2],
      \* the second tracked tab is not in the spreadsheet
      [tabs |-> <<Small, Small>>,
       chunk_size |-> 2, max_rows |-> 0, freeze_chunk |-> 2,
       freeze |-> {FALSE}, source |-> NoRows, absent |-> {"T2"}, target_rows |-> 2],
      \* the target tab of the second mapping is not in the spreadsheet
      [tabs |-> <<Small, Small>>,
       chunk_size |-> 2, max_rows |-> 0, freeze_chunk |-> 2,
       freeze |-> {FALSE}, source |-> TwoValues, absent |-> {"S2"}, target_rows |-> 2],
      \* negative chunk sizes
      [tabs |-> <<Tab(<<66>>, 2, 4, <<Fml(1), Empty, Lit(7)>>), Tab(<<67>>, 4, 1, << >>)>>,
       chunk_size |-> -3, max_rows |-> 0, freeze_chunk |-> -1,
       freeze |-> {TRUE}, source |-> NoRows, absent |-> {}, target_rows |-> 2] }

TabNo(t) == CHOOSE i \in 1..Len(master_tabs) : master_tabs[i] = t

(* the spreadsheet and the configuration of scenario sc, no job started *)
InitOf(sc, f) ==
    /\ grid = [t \in Tabs |-> InitTab(sc.tabs[TabNo(t)])]
    /\ colCount = [t \in Tabs |-> sc.tabs[TabNo(t)].cols]
    /\ rowCount = [t \in Tabs |-> sc.tabs[TabNo(t)].rows]
    /\ metaCell = [t \in Tabs |-> sc.tabs[TabNo(t)].label]
    /\ cfg = [freeze |-> f,                  \* MASTER_FREEZE_VALUES
              chunk_size |-> sc.chunk_size, max_rows |-> sc.max_rows,
              freeze_chunk |-> sc.freeze_chunk,
              target_rows |-> sc.target_rows]   \* rows of target_range
    /\ source = sc.source
    /\ titles = (Tabs \cup Targets) \ sc.absent
    /\ stage = 1 /\ stage2 = 1 /\ stageRest = [t \in Targets |-> 1]
    /\ today = 200
    /\ job = "none" /\ pc = "idle" /\ attempt = 0 /\ exitCode = -1
    /\ sheet_props = << >> /\ master_meta = << >>
    /\ tabIdx = 0 /\ mapIdx = 0 /\ row = 0 /\ formulas = NoVals /\ values = NoVals
    /\ new_col = << >>
    /\ fails = 0 /\ jobs = 0
    /\ grid0 = grid /\ meta0 = metaCell /\ log = << >>
    /\ metaWrites = [t \in Tabs |-> 0] /\ failedTabs = {}

(* no function is called on its own *)
NoCall == [fn |-> "none"]

Init ==
    /\ \E sc \in Scenarios : \E f \in sc.freeze : InitOf(sc, f)
    /\ arg = NoCall /\ ret = << >>

(* ---------------------------------------------------------------------- *)
(* The append job: main, run_update, update_master_tab, update_master_meta *)
(* ---------------------------------------------------------------------- *)
CurTab == master_tabs[tabIdx]

Req(op, c, a, b) == [op |-> op, c |-> c, a |-> a, b |-> b]

(* arguments of the running update_master_tab call *)
LastDateCol == master_meta[CurTab]
EffRows == EffectiveRows(sheet_props[CurTab].rowCount, cfg.max_rows)
CurChunkEnd == ChunkEnd(row, cfg.chunk_size, EffRows)

(* get_sheet_properties_map: the properties of every tab the spreadsheet  *)
(* has; the size of a staging tab plays no part                            *)
SheetProperties ==
    [t \in titles |->
        IF t \in Tabs THEN [rowCount |-> rowCount[t], columnCount |-> colCount[t]]
        ELSE [rowCount |-> 0, columnCount |-> 0]]

(* main: the job starts with attempt 1 *)
StartUpdate ==
    /\ pc = "idle" /\ jobs < MaxJobs
    /\ job' = "update" /\ pc' = "list" /\ attempt' = 1 /\ exitCode' = -1
    /\ jobs' = jobs + 1
    /\ grid0' = grid /\ meta0' = metaCell /\ log' = << >>
    /\ metaWrites' = [t \in Tabs |-> 0] /\ failedTabs' = {}
    /\ UNCHANGED <<remote, cfg, today, calls, locals, fails>>

(* list_spreadsheets_recursive *)
ListFiles ==
    /\ job = "update" /\ pc = "list"
    /\ pc' = "props"
    /\ UNCHANGED <<remote, cfg, today, calls, job, attempt, exitCode, locals, fails,
                   jobs, history>>

(* get_sheet_properties_map *)
GetSheetProps ==
    /\ job = "update" /\ pc = "props"
    /\ sheet_props' = SheetProperties
    /\ pc' = "meta"
    /\ UNCHANGED <<mapIdx, new_col, remote, cfg, today, calls, job, attempt, exitCode, master_meta,
                   tabIdx, row, formulas, values, fails, jobs, history>>

(* get_master_meta_map with master_meta_rows: one cell per tab; the empty  *)
(* label stands for a tab without entry (master_meta.get(tab) is None)      *)
MetaMap == [t \in Tabs |-> UpperStr(Strip(metaCell[t]))]

GetMasterMetaMap ==
    /\ job = "update" /\ pc = "meta"
    /\ master_meta' = MetaMap
    /\ pc' = "select" /\ mapIdx' = 1
    /\ UNCHANGED <<new_col, remote, cfg, today, calls, job, attempt, exitCode, sheet_props,
                   tabIdx, row, formulas, values, fails, jobs, history>>

(* the mapping the loop over mappings is at, and its target tab *)
CurTarget == mappings[mapIdx]

(* the first row of the staging tab of the running mapping gets content v *)
Staged(v) ==
    IF mapIdx = 1 THEN stage' = v /\ stage2' = stage2
    ELSE stage2' = v /\ stage' = stage

(* run_update: the loop over mappings is over *)
MappingsDone ==
    /\ job = "update" /\ pc = "select" /\ mapIdx > Len(mappings)
    /\ pc' = "tab" /\ tabIdx' = 1 /\ mapIdx' = 0
    /\ UNCHANGED <<new_col, remote, cfg, today, calls, job, attempt, exitCode, sheet_props,
                   master_meta, row, formulas, values, fails, jobs, history>>

(* target_tab not in target_tabs: raise TabMissingError, main returns 2 *)
TargetTabMissing ==
    /\ job = "update" /\ pc = "select" /\ mapIdx <= Len(mappings)
    /\ CurTarget \notin DOMAIN sheet_props
    /\ pc' = "idle" /\ exitCode' = 2
    /\ sheet_props' = << >> /\ master_meta' = << >> /\ tabIdx' = 0 /\ mapIdx' = 0 /\ row' = 0
    /\ formulas' = NoVals /\ values' = NoVals /\ new_col' = << >>
    /\ log' = << >>
    /\ UNCHANGED <<remote, cfg, today, calls, job, attempt, fails, jobs, grid0, meta0,
                   metaWrites, failedTabs>>

(* select_latest_file finds a source for the mapping or not *)
SelectLatestFile ==
    /\ job = "update" /\ pc = "select" /\ mapIdx <= Len(mappings)
    /\ CurTarget \in DOMAIN sheet_props
    /\ \E found \in BOOLEAN : pc' = IF found THEN "source" ELSE "skip"
    /\ UNCHANGED <<new_col, remote, cfg, today, calls, job, attempt, exitCode, sheet_props,
                   master_meta, tabIdx, mapIdx, row, formulas, values, fails, jobs, history>>

(* a skip that leaves the loop over the mappings *)
SkipMappingBreaks ==
    /\ job = "update" /\ pc = "skip"
    /\ pc' = "select" /\ mapIdx' = Len(mappings) + 1
    /\ UNCHANGED <<new_col, remote, cfg, today, calls, job, attempt, exitCode, sheet_props,
                   master_meta, tabIdx, row, formulas, values, fails, jobs, history>>

(* if not latest_file: continue with the next mapping *)
SkipMapping ==
    /\ job = "update" /\ pc = "skip"
    /\ pc' = "select" /\ mapIdx' = mapIdx + 1
    /\ UNCHANGED <<new_col, remote, cfg, today, calls, job, attempt, exitCode, sheet_props,
                   master_meta, tabIdx, row, formulas, values, fails, jobs, history>>

ReadSourceValues ==
    /\ job = "update" /\ pc = "source"
    /\ values' = source
    /\ pc' = "clear"
    /\ UNCHANGED <<new_col, remote, cfg, today, calls, job, attempt, exitCode, sheet_props,
                   master_meta, tabIdx, mapIdx, row, formulas, fails, jobs, history>>

(* except HttpError: the mapping is skipped *)
ReadSourceHttpError ==
    /\ job = "update" /\ pc = "source" /\ fails < MaxFails
    /\ fails' = fails + 1
    /\ pc' = "select" /\ mapIdx' = mapIdx + 1
    /\ UNCHANGED <<new_col, remote, cfg, today, calls, job, attempt, exitCode, sheet_props,
                   master_meta, tabIdx, row, formulas, values, jobs, history>>

(* clear_target_range; write_target_values issues no request without values *)
ClearTargetRange ==
    /\ job = "update" /\ pc = "clear"
    /\ Staged(0)
    /\ stageRest' = IF cfg.target_rows >= 2
                    THEN [stageRest EXCEPT ![CurTarget] = 0] ELSE stageRest
    /\ IF values = NoVals
       THEN pc' = "select" /\ mapIdx' = mapIdx + 1 /\ values' = NoVals
       ELSE pc' = "write" /\ mapIdx' = mapIdx /\ values' = values
    /\ UNCHANGED <<new_col, grid, colCount, rowCount, titles, metaCell, source, cfg, today, calls,
                   job, attempt, exitCode, sheet_props, master_meta, tabIdx, row,
                   formulas, fails, jobs, history>>

WriteTargetValues ==
    /\ job = "update" /\ pc = "write"
    /\ Staged(values[<<0, 0>>].x)
    /\ stageRest' = IF <<1, 0>> \in DOMAIN values
                    THEN [stageRest EXCEPT ![CurTarget] = values[<<1, 0>>].x]
                    ELSE stageRest
    /\ pc' = "select" /\ mapIdx' = mapIdx + 1 /\ values' = NoVals
    /\ UNCHANGED <<new_col, grid, colCount, rowCount, titles, metaCell, source, cfg, today, calls,
                   job, attempt, exitCode, sheet_props, master_meta, tabIdx, row,
                   formulas, fails, jobs, history>>

(* run_update: the loop over master_tabs is over, main returns 0 *)
UpdateCompleted ==
    /\ job = "update" /\ pc = "tab" /\ tabIdx > Len(master_tabs)
    /\ pc' = "idle" /\ exitCode' = 0
    /\ sheet_props' = << >> /\ master_meta' = << >> /\ tabIdx' = 0 /\ mapIdx' = 0 /\ row' = 0
    /\ formulas' = NoVals /\ values' = NoVals /\ new_col' = << >>
    /\ log' = << >>
    /\ UNCHANGED <<remote, cfg, today, calls, job, attempt, fails, jobs, grid0, meta0,
                   metaWrites, failedTabs>>

(* not last_date_col *)
MetaMissing(t) == master_meta[t] = << >>

TabMissingRetried ==
    /\ job = "update" /\ pc = "tab" /\ tabIdx <= Len(master_tabs)
    /\ CurTab \notin DOMAIN sheet_props \/ MetaMissing(CurTab)
    /\ IF attempt < RETRY_COUNT
       THEN pc' = "list" /\ attempt' = attempt + 1 /\ exitCode' = exitCode
       ELSE pc' = "idle" /\ attempt' = attempt /\ exitCode' = 1
    /\ sheet_props' = << >> /\ master_meta' = << >> /\ tabIdx' = 0 /\ mapIdx' = 0
    /\ row' = 0 /\ formulas' = NoVals /\ values' = NoVals /\ new_col' = << >>
    /\ log' = << >>
    /\ UNCHANGED <<remote, cfg, today, calls, job, fails, jobs, grid0, meta0,
                   metaWrites, failedTabs>>

(* raise TabMissingError: main returns 2 *)
TabMissing ==
    /\ job = "update" /\ pc = "tab" /\ tabIdx <= Len(master_tabs)
    /\ CurTab \notin DOMAIN sheet_props \/ MetaMissing(CurTab)
    /\ pc' = "idle" /\ exitCode' = 2
    /\ sheet_props' = << >> /\ master_meta' = << >> /\ tabIdx' = 0 /\ mapIdx' = 0 /\ row' = 0
    /\ formulas' = NoVals /\ values' = NoVals /\ new_col' = << >>
    /\ log' = << >>
    /\ UNCHANGED <<remote, cfg, today, calls, job, attempt, fails, jobs, grid0, meta0,
                   metaWrites, failedTabs>>

(* update_master_tab returns last_date_col: no request, no metadata write *)
TabSkip ==
    /\ job = "update" /\ pc = "tab" /\ tabIdx <= Len(master_tabs)
    /\ CurTab \in DOMAIN sheet_props /\ ~MetaMissing(CurTab)
    /\ EffRows <= 1
    /\ new_col' = LastDateCol
    /\ pc' = "returned"
    /\ log' = << >>
    /\ UNCHANGED <<mapIdx, remote, cfg, today, calls, job, attempt, exitCode, sheet_props,
                   master_meta, tabIdx, row, formulas, values, fails, jobs,
                   grid0, meta0, metaWrites, failedTabs>>

(* a start that asks for the structural update whatever the column count *)
TabStartAlwaysExpands ==
    /\ job = "update" /\ pc = "tab" /\ tabIdx <= Len(master_tabs)
    /\ CurTab \in DOMAIN sheet_props /\ ~MetaMissing(CurTab)
    /\ EffRows > 1
    /\ row' = 1
    /\ pc' = "expand"
    /\ log' = << >>
    /\ UNCHANGED <<mapIdx, new_col, remote, cfg, today, calls, job, attempt, exitCode, sheet_props,
                   master_meta, tabIdx, formulas, values, fails, jobs, grid0,
                   meta0, metaWrites, failedTabs>>

(* update_master_tab up to its first request *)
TabStart ==
    /\ job = "update" /\ pc = "tab" /\ tabIdx <= Len(master_tabs)
    /\ CurTab \in DOMAIN sheet_props /\ ~MetaMissing(CurTab)
    /\ EffRows > 1
    /\ row' = 1
    /\ pc' = IF NewColIndex(LastDateCol) > sheet_props[CurTab].columnCount
             THEN "expand" ELSE "header"
    /\ log' = << >>
    /\ UNCHANGED <<mapIdx, new_col, remote, cfg, today, calls, job, attempt, exitCode, sheet_props,
                   master_meta, tabIdx, formulas, values, fails, jobs, grid0,
                   meta0, metaWrites, failedTabs>>

(* batchUpdate updateSheetProperties gridProperties.columnCount *)
ExpandColumns ==
    /\ job = "update" /\ pc = "expand"
    /\ colCount' = [colCount EXCEPT ![CurTab] = NewColIndex(LastDateCol)]
    /\ log' = Append(log, Req("expand", NewColIndex(LastDateCol), 0, 0))
    /\ pc' = "header"
    /\ UNCHANGED <<titles, stage2, stageRest, grid, rowCount, metaCell, stage, source, cfg, today, calls, job, attempt,
                   exitCode, locals, fails, jobs, grid0, meta0, metaWrites,
                   failedTabs>>

(* where the copy loop goes on after the chunk ending at row e *)
AfterChunkEarly(e) == IF e + 1 < EffRows THEN "fread" ELSE "return"
AfterChunk(e) == IF e < EffRows THEN "fread" ELSE "return"

HeaderUpdate ==
    /\ job = "update" /\ pc = "header"
    /\ grid' = [grid EXCEPT ![CurTab] =
                    WriteHeader(@, NewColIndex(LastDateCol), today)]
    /\ log' = Append(log, Req("header", NewColIndex(LastDateCol), 1, 1))
    /\ pc' = AfterChunk(row)
    /\ UNCHANGED <<titles, stage2, stageRest, colCount, rowCount, metaCell, stage, source, cfg, today, calls, job, attempt,
                   exitCode, locals, fails, jobs, grid0, meta0, metaWrites,
                   failedTabs>>

PrevCols == RangeCols(PrevColIndex(LastDateCol), sheet_props[CurTab].columnCount)

FormulaRead ==
    /\ job = "update" /\ pc = "fread"
    /\ formulas' = GetValues(grid[CurTab], PrevCols, row + 1, CurChunkEnd,
                             "FORMULA", stage)
    /\ log' = Append(log, Req("fread", PrevColIndex(LastDateCol), row + 1, CurChunkEnd))
    /\ pc' = IF formulas' # NoVals THEN "fwrite"
             ELSE IF cfg.freeze THEN "vread" ELSE AfterChunk(CurChunkEnd)
    /\ row' = IF formulas' = NoVals /\ ~cfg.freeze THEN CurChunkEnd ELSE row
    /\ UNCHANGED <<mapIdx, new_col, remote, cfg, today, calls, job, attempt, exitCode, sheet_props,
                   master_meta, tabIdx, values, fails, jobs, grid0, meta0,
                   metaWrites, failedTabs>>

(* a copy loop that leaves the write of the new column out *)
FormulaWriteSkipped ==
    /\ job = "update" /\ pc = "fwrite"
    /\ formulas' = NoVals
    /\ pc' = IF cfg.freeze THEN "vread" ELSE AfterChunk(CurChunkEnd)
    /\ row' = IF cfg.freeze THEN row ELSE CurChunkEnd
    /\ UNCHANGED <<mapIdx, remote, new_col, cfg, today, calls, job, attempt,
                   exitCode, sheet_props, master_meta, tabIdx, values, fails,
                   jobs, history>>

FormulaWrite ==
    /\ job = "update" /\ pc = "fwrite"
    /\ grid' = [grid EXCEPT ![CurTab] =
            UpdateValues(@, NewColIndex(LastDateCol), row + 1, formulas, "USER_ENTERED")]
    /\ log' = Append(log, Req("fwrite", NewColIndex(LastDateCol), row + 1, CurChunkEnd))
    /\ formulas' = NoVals
    /\ pc' = IF cfg.freeze THEN "vread" ELSE AfterChunk(CurChunkEnd)
    /\ row' = IF cfg.freeze THEN row ELSE CurChunkEnd
    /\ UNCHANGED <<mapIdx, titles, stage2, stageRest, new_col, colCount, rowCount, metaCell, stage, source, cfg, today, calls, job, attempt,
                   exitCode, sheet_props, master_meta, tabIdx, values, fails,
                   jobs, grid0, meta0, metaWrites, failedTabs>>

ValueRead ==
    /\ job = "update" /\ pc = "vread"
    /\ values' = GetValues(grid[CurTab], PrevCols, row + 1, CurChunkEnd,
                           "UNFORMATTED_VALUE", stage)
    /\ log' = Append(log, Req("vread", PrevColIndex(LastDateCol), row + 1, CurChunkEnd))
    /\ pc' = IF values' # NoVals THEN "vwrite" ELSE AfterChunk(CurChunkEnd)
    /\ row' = IF values' = NoVals THEN CurChunkEnd ELSE row
    /\ UNCHANGED <<mapIdx, new_col, remote, cfg, today, calls, job, attempt, exitCode, sheet_props,
                   master_meta, tabIdx, formulas, fails, jobs, grid0, meta0,
                   metaWrites, failedTabs>>

ValueWrite ==
    /\ job = "update" /\ pc = "vwrite"
    /\ grid' = [grid EXCEPT ![CurTab] =
            UpdateValues(@, AnchorCol(PrevColIndex(LastDateCol)), row + 1, values, "RAW")]
    /\ log' = Append(log, Req("vwrite", PrevColIndex(LastDateCol), row + 1, CurChunkEnd))
    /\ values' = NoVals
    /\ pc' = AfterChunk(CurChunkEnd)
    /\ row' = CurChunkEnd
    /\ UNCHANGED <<mapIdx, titles, stage2, stageRest, new_col, colCount, rowCount, metaCell, stage, source, cfg, today, calls, job, attempt,
                   exitCode, sheet_props, master_meta, tabIdx, formulas, fails,
                   jobs, grid0, meta0, metaWrites, failedTabs>>

(* update_master_tab returns col_to_a1(new_col_index) *)
ReturnLabel ==
    /\ job = "update" /\ pc = "return"
    /\ new_col' = col_to_a1(NewColIndex(LastDateCol))
    /\ pc' = "returned"
    /\ row' = 0
    /\ UNCHANGED <<mapIdx, remote, cfg, today, calls, job, attempt, exitCode, sheet_props,
                   master_meta, tabIdx, formulas, values, fails, jobs, history>>

(* run_update: if new_col != last_date_col *)
CompareLabel ==
    /\ job = "update" /\ pc = "returned"
    /\ IF new_col # LastDateCol
       THEN pc' = "metaupd" /\ tabIdx' = tabIdx /\ new_col' = new_col
       ELSE pc' = "tab" /\ tabIdx' = tabIdx + 1 /\ new_col' = << >>
    /\ UNCHANGED <<mapIdx, remote, cfg, today, calls, job, attempt, exitCode, sheet_props,
                   master_meta, row, formulas, values, fails, jobs, history>>

(* update_master_meta with the tab in master_meta_rows: one cell is written *)
UpdateMasterMeta(m, tab_name, label) == [m EXCEPT ![tab_name] = label]

MetaUpdate ==
    /\ job = "update" /\ pc = "metaupd"
    /\ metaCell' = UpdateMasterMeta(metaCell, CurTab, new_col)
    /\ metaWrites' = [metaWrites EXCEPT ![CurTab] = @ + 1]
    /\ pc' = "tab" /\ tabIdx' = tabIdx + 1 /\ new_col' = << >>
    /\ UNCHANGED <<mapIdx, titles, stage2, stageRest, grid, colCount, rowCount, stage, source, cfg, today, calls, job, attempt,
                   exitCode, sheet_props, master_meta, row, formulas, values,
                   fails, jobs, grid0, meta0, log, failedTabs>>

(* positions at which run_update waits for the answer to a request *)
UpdateRequests == {"list", "props", "meta", "source", "clear", "write", "expand",
                   "header", "fread", "fwrite", "vread", "vwrite", "metaupd"}
AppendRequests == {"expand", "header", "fread", "fwrite", "vread", "vwrite"}

UpdateRequestFailsOnceMore ==
    /\ job = "update" /\ pc \in UpdateRequests /\ fails < MaxFails
    /\ fails' = fails + 1
    /\ failedTabs' = IF pc \in AppendRequests THEN failedTabs \cup {CurTab}
                     ELSE failedTabs
    /\ IF attempt <= RETRY_COUNT
       THEN pc' = "list" /\ attempt' = attempt + 1 /\ exitCode' = exitCode
       ELSE pc' = "idle" /\ attempt' = attempt /\ exitCode' = 1
    /\ sheet_props' = << >> /\ master_meta' = << >> /\ tabIdx' = 0 /\ mapIdx' = 0
    /\ row' = 0 /\ formulas' = NoVals /\ values' = NoVals /\ new_col' = << >>
    /\ log' = << >>
    /\ UNCHANGED <<remote, cfg, today, calls, job, jobs, grid0, meta0, metaWrites>>

(* main: except Exception: the request raised; the next attempt starts the  *)
(* run from the beginning, the last attempt returns 1                       *)
UpdateRequestFails ==
    /\ job = "update" /\ pc \in UpdateRequests /\ fails < MaxFails
    /\ fails' = fails + 1
    /\ failedTabs' = IF pc \in AppendRequests THEN failedTabs \cup {CurTab}
                     ELSE failedTabs
    /\ IF attempt < RETRY_COUNT
       THEN pc' = "list" /\ attempt' = attempt + 1 /\ exitCode' = exitCode
       ELSE pc' = "idle" /\ attempt' = attempt /\ exitCode' = 1
    /\ sheet_props' = << >> /\ master_meta' = << >> /\ tabIdx' = 0 /\ mapIdx' = 0 /\ row' = 0
    /\ formulas' = NoVals /\ values' = NoVals /\ new_col' = << >>
    /\ log' = << >>
    /\ UNCHANGED <<remote, cfg, today, calls, job, jobs, grid0, meta0, metaWrites>>

(* ---------------------------------------------------------------------- *)
(* The freeze job: main, run_freeze, freeze_column_values                  *)
(* ---------------------------------------------------------------------- *)
FreezeEffRows == EffectiveRows(sheet_props[CurTab].rowCount, cfg.max_rows)
FreezeLastCol == a1_to_col(master_meta[CurTab])
FreezePrevCol == a1_to_col(master_meta[CurTab]) - 1
FreezeEnd == Min(row + Max(1, cfg.freeze_chunk), FreezeEffRows)

StartFreeze ==
    /\ pc = "idle" /\ jobs < MaxJobs
    /\ job' = "freeze" /\ pc' = "f_props" /\ attempt' = 1 /\ exitCode' = -1
    /\ jobs' = jobs + 1
    /\ grid0' = grid /\ meta0' = metaCell /\ log' = << >>
    /\ metaWrites' = [t \in Tabs |-> 0] /\ failedTabs' = {}
    /\ UNCHANGED <<remote, cfg, today, calls, locals, fails>>

FreezeGetSheetProps ==
    /\ job = "freeze" /\ pc = "f_props"
    /\ sheet_props' = SheetProperties
    /\ pc' = "f_meta"
    /\ UNCHANGED <<mapIdx, new_col, remote, cfg, today, calls, job, attempt, exitCode, master_meta,
                   tabIdx, row, formulas, values, fails, jobs, history>>

(* get_master_meta_from_rows *)
FreezeGetMeta ==
    /\ job = "freeze" /\ pc = "f_meta"
    /\ master_meta' = MetaMap
    /\ pc' = "f_tab" /\ tabIdx' = 1
    /\ UNCHANGED <<mapIdx, new_col, remote, cfg, today, calls, job, attempt, exitCode, sheet_props,
                   row, formulas, values, fails, jobs, history>>

FreezeCompleted ==
    /\ job = "freeze" /\ pc = "f_tab" /\ tabIdx > Len(master_tabs)
    /\ pc' = "idle" /\ exitCode' = 0
    /\ sheet_props' = << >> /\ master_meta' = << >> /\ tabIdx' = 0 /\ mapIdx' = 0 /\ row' = 0
    /\ log' = << >>
    /\ UNCHANGED <<new_col, remote, cfg, today, calls, job, attempt, formulas, values, fails,
                   jobs, grid0, meta0, metaWrites, failedTabs>>

(* raise RuntimeError: main handles it like any other exception *)
FreezeTabMissing ==
    /\ job = "freeze" /\ pc = "f_tab" /\ tabIdx <= Len(master_tabs)
    /\ CurTab \notin DOMAIN sheet_props \/ MetaMissing(CurTab)
    /\ IF attempt < RETRY_COUNT
       THEN pc' = "f_props" /\ attempt' = attempt + 1 /\ exitCode' = exitCode
       ELSE pc' = "idle" /\ attempt' = attempt /\ exitCode' = 1
    /\ sheet_props' = << >> /\ master_meta' = << >> /\ tabIdx' = 0 /\ mapIdx' = 0 /\ row' = 0
    /\ log' = << >>
    /\ UNCHANGED <<new_col, remote, cfg, today, calls, job, formulas, values, fails, jobs,
                   grid0, meta0, metaWrites, failedTabs>>

FreezeTabSkip ==
    /\ job = "freeze" /\ pc = "f_tab" /\ tabIdx <= Len(master_tabs)
    /\ CurTab \in DOMAIN sheet_props /\ ~MetaMissing(CurTab)
    /\ FreezePrevCol < 1 \/ FreezeEffRows <= 1
    /\ tabIdx' = tabIdx + 1
    /\ log' = << >>
    /\ UNCHANGED <<mapIdx, new_col, remote, cfg, today, calls, job, pc, attempt, exitCode, sheet_props,
                   master_meta, row, formulas, values, fails, jobs, grid0,
                   meta0, metaWrites, failedTabs>>

FreezeTabStart ==
    /\ job = "freeze" /\ pc = "f_tab" /\ tabIdx <= Len(master_tabs)
    /\ CurTab \in DOMAIN sheet_props /\ ~MetaMissing(CurTab)
    /\ FreezePrevCol >= 1 /\ FreezeEffRows > 1
    /\ row' = 1 /\ pc' = "f_chunk"
    /\ log' = << >>
    /\ UNCHANGED <<mapIdx, new_col, remote, cfg, today, calls, job, attempt, exitCode, sheet_props,
                   master_meta, tabIdx, formulas, values, fails, jobs, grid0,
                   meta0, metaWrites, failedTabs>>

(* a paste that starts at the row of the cursor instead of the row below *)
FreezeChunkFromCursor ==
    /\ job = "freeze" /\ pc = "f_chunk"
    /\ grid' = [grid EXCEPT ![CurTab] =
                    PasteValues(@, FreezePrevCol, row, FreezeEnd, stage)]
    /\ log' = Append(log, Req("paste", FreezePrevCol, row, FreezeEnd))
    /\ row' = IF FreezeEnd < FreezeEffRows THEN FreezeEnd ELSE 0
    /\ IF FreezeEnd < FreezeEffRows
       THEN pc' = "f_chunk" /\ tabIdx' = tabIdx
       ELSE pc' = "f_tab" /\ tabIdx' = tabIdx + 1
    /\ UNCHANGED <<mapIdx, titles, stage2, stageRest, new_col, colCount, rowCount, metaCell, stage, source, cfg, today, calls, job, attempt,
                   exitCode, sheet_props, master_meta, formulas, values, fails,
                   jobs, grid0, meta0, metaWrites, failedTabs>>

(* freeze_column_values(sheet_id, prev_col_index - 1, row, end_row) *)
FreezeChunk ==
    /\ job = "freeze" /\ pc = "f_chunk"
    /\ grid' = [grid EXCEPT ![CurTab] =
                    PasteValues(@, FreezePrevCol, row + 1, FreezeEnd, stage)]
    /\ log' = Append(log, Req("paste", FreezePrevCol, row + 1, FreezeEnd))
    /\ row' = IF FreezeEnd < FreezeEffRows THEN FreezeEnd ELSE 0
    /\ IF FreezeEnd < FreezeEffRows
       THEN pc' = "f_chunk" /\ tabIdx' = tabIdx
       ELSE pc' = "f_tab" /\ tabIdx' = tabIdx + 1
    /\ UNCHANGED <<mapIdx, titles, stage2, stageRest, new_col, colCount, rowCount, metaCell, stage, source, cfg, today, calls, job, attempt,
                   exitCode, sheet_props, master_meta, formulas, values, fails,
                   jobs, grid0, meta0, metaWrites, failedTabs>>

FreezeRequestFails ==
    /\ job = "freeze" /\ pc \in {"f_props", "f_meta", "f_chunk"} /\ fails < MaxFails
    /\ fails' = fails + 1
    /\ failedTabs' = IF pc = "f_chunk" THEN failedTabs \cup {CurTab} ELSE failedTabs
    /\ IF attempt < RETRY_COUNT
       THEN pc' = "f_props" /\ attempt' = attempt + 1 /\ exitCode' = exitCode
       ELSE pc' = "idle" /\ attempt' = attempt /\ exitCode' = 1
    /\ sheet_props' = << >> /\ master_meta' = << >> /\ tabIdx' = 0 /\ mapIdx' = 0 /\ row' = 0
    /\ log' = << >>
    /\ UNCHANGED <<new_col, remote, cfg, today, calls, job, formulas, values, jobs, grid0,
                   meta0, metaWrites>>

(* ---------------------------------------------------------------------- *)
Next ==
    \/ StartUpdate \/ ListFiles \/ GetSheetProps \/ GetMasterMetaMap
    \/ MappingsDone \/ TargetTabMissing \/ SkipMapping
    \/ SelectLatestFile \/ ReadSourceValues \/ ReadSourceHttpError
    \/ ClearTargetRange \/ WriteTargetValues
    \/ UpdateCompleted \/ TabMissing \/ TabSkip \/ TabStart
    \/ ExpandColumns \/ HeaderUpdate
    \/ FormulaRead \/ FormulaWrite \/ ValueRead \/ ValueWrite
    \/ ReturnLabel \/ CompareLabel \/ MetaUpdate \/ UpdateRequestFails
    \/ StartFreeze \/ FreezeGetSheetProps \/ FreezeGetMeta
    \/ FreezeCompleted \/ FreezeTabMissing \/ FreezeTabSkip \/ FreezeTabStart
    \/ FreezeChunk \/ FreezeRequestFails

Spec == Init /\ [][Next]_vars

(* the jobs are sequential programs: a job that can take a step takes one *)
FairSpec == Spec /\ WF_vars(Next)

(* ---------------------------------------------------------------------- *)
(* The functions of the jobs called on their own: arg holds the function  *)
(* and its arguments, ret the values returned so far.  No job runs.        *)
(* ---------------------------------------------------------------------- *)
program == <<remote, cfg, today, job, pc, attempt, exitCode, locals, fails, jobs,
             history>>

(* ---- the source selector ---------------------------------------------- *)
(* A name is a sequence of character codes.  A datetime is a record        *)
(* [aware, day, sec]: aware tells whether it carries a UTC offset, day is  *)
(* the ordinal of the date and sec the second of the day; an aware one is  *)
(* kept as its UTC instant, which is what Python compares.                 *)
None == [none |-> TRUE]

StartsWith(name, p) == Len(name) >= Len(p) /\ \A i \in 1..Len(p) : name[i] = p[i]

IsDigit(ch) == 48 <= ch /\ ch <= 57

SixDigitsAt(s, i) == i >= 1 /\ i + 5 <= Len(s) /\ \A k \in i..(i + 5) : IsDigit(s[k])

(* re.search(r"(\d{6})(?:_(\d{6}))?", suffix): start of group 1 and of     *)
(* group 2 (0 when group 2 did not take part), or << >> without a match     *)
SearchStamp(s) ==
    IF \E i \in 1..Len(s) : SixDigitsAt(s, i)
    THEN LET i == CHOOSE i \in 1..Len(s) :
                      SixDigitsAt(s, i) /\ \A j \in 1..(i - 1) : ~SixDigitsAt(s, j)
         IN  <<i, IF i + 6 <= Len(s) /\ s[i + 6] = 95 /\ SixDigitsAt(s, i + 7)
                  THEN i + 7 ELSE 0>>
    ELSE << >>

Int2(s, i) == (s[i] - 48) * 10 + (s[i + 1] - 48)

IsLeap(year) == year % 4 = 0 /\ (year % 100 # 0 \/ year % 400 = 0)

DaysInMonth(year, month) ==
    IF month = 2 THEN (IF IsLeap(year) THEN 29 ELSE 28)
    ELSE IF month \in {4, 6, 9, 11} THEN 30 ELSE 31

RECURSIVE DaysBeforeMonth(_, _)
DaysBeforeMonth(year, month) ==
    IF month <= 1 THEN 0
    ELSE DaysBeforeMonth(year, month - 1) + DaysInMonth(year, month - 1)

Ordinal(year, month, day) ==
    365 * (year - 1) + ((year - 1) \div 4) - ((year - 1) \div 100)
        + ((year - 1) \div 400) + DaysBeforeMonth(year, month) + day

(* datetime(year, month, day, hour, minute, second): None stands for the   *)
(* ValueError of a field out of range                                      *)
NaiveDatetime(year, month, day, hour, minute, second) ==
    IF /\ 1 <= month /\ month <= 12
       /\ 1 <= day /\ day <= DaysInMonth(year, month)
       /\ hour <= 23 /\ minute <= 59 /\ second <= 59
    THEN [aware |-> FALSE, day |-> Ordinal(year, month, day),
          sec |-> (hour * 60 + minute) * 60 + second]
    ELSE None

datetime_min == [aware |-> FALSE, day |-> 1, sec |-> 0]

parse_timestamp_from_name(name, prefix) ==
    IF ~StartsWith(name, prefix) THEN None
    ELSE LET suffix == SubSeq(name, Len(prefix) + 1, Len(name))
             match == SearchStamp(suffix)
         IN  IF match = << >> THEN None
             ELSE LET d == match[1]
                      t == match[2]
                  IN  NaiveDatetime(2000 + Int2(suffix, d), Int2(suffix, d + 2),
                                    Int2(suffix, d + 4),
                                    IF t = 0 THEN 0 ELSE Int2(suffix, t),
                                    IF t = 0 THEN 0 ELSE Int2(suffix, t + 2),
                                    IF t = 0 THEN 0 ELSE Int2(suffix, t + 4))

(* An RFC 3339 string is a record [ymd, hms, zone] with zone "Z" or an     *)
(* offset of whole hours; "Z" reads as offset 0.                           *)
OffsetHours(zone) == IF zone = "Z" THEN 0 ELSE IF zone = "+09:00" THEN 9 ELSE 0

parse_rfc3339(ts) ==
    LET local == (ts.hms[1] * 60 + ts.hms[2]) * 60 + ts.hms[3]
        utc == local - 3600 * OffsetHours(ts.zone)
        day == Ordinal(ts.ymd[1], ts.ymd[2], ts.ymd[3])
    IN  IF utc < 0
        THEN [aware |-> TRUE, day |-> day - 1, sec |-> utc + 86400]
        ELSE [aware |-> TRUE, day |-> day, sec |-> utc]

OrMin(ts) == IF ts = None THEN datetime_min ELSE ts

sort_key(f, prefix) ==
    << OrMin(parse_timestamp_from_name(f.name, prefix)),
       IF f.modifiedTime # None THEN parse_rfc3339(f.modifiedTime) ELSE datetime_min,
       IF f.createdTime # None THEN parse_rfc3339(f.createdTime) ELSE datetime_min >>

(* a < b on datetimes of one kind *)
Earlier(a, b) == a.day < b.day \/ (a.day = b.day /\ a.sec < b.sec)

(* comparison of two key tuples as Python makes it: the first components   *)
(* that are not equal decide, and ordering an aware against a naive        *)
(* datetime raises TypeError                                               *)
RECURSIVE CompareKeys(_, _, _)
CompareKeys(a, b, i) ==
    IF i > Len(a) THEN "eq"
    ELSE IF a[i] = b[i] THEN CompareKeys(a, b, i + 1)
    ELSE IF a[i].aware # b[i].aware THEN "TypeError"
    ELSE IF Earlier(a[i], b[i]) THEN "lt" ELSE "gt"

(* insertion that puts an element before the elements it is equal to *)
RECURSIVE InsertBeforeEqual(_, _, _, _)
InsertBeforeEqual(sorted, x, files, prefix) ==
    IF sorted = << >> THEN <<x>>
    ELSE IF CompareKeys(sort_key(files[sorted[1]], prefix), sort_key(files[x], prefix), 1) = "gt"
         THEN <<sorted[1]>> \o InsertBeforeEqual(Tail(sorted), x, files, prefix)
         ELSE <<x>> \o sorted

(* the sort is stable: an element goes after the elements already placed   *)
(* whose key is greater or equal                                           *)
RECURSIVE InsertDescending(_, _, _, _)
InsertDescending(sorted, x, files, prefix) ==
    IF sorted = << >> THEN <<x>>
    ELSE IF CompareKeys(sort_key(files[sorted[1]], prefix), sort_key(files[x], prefix), 1) \in {"gt", "eq"}
         THEN <<sorted[1]>> \o InsertDescending(Tail(sorted), x, files, prefix)
         ELSE <<x>> \o sorted

RECURSIVE SortDescending(_, _, _)
SortDescending(candidates, files, prefix) ==
    IF candidates = << >> THEN << >>
    ELSE InsertDescending(SortDescending(SubSeq(candidates, 1, Len(candidates) - 1), files, prefix),
                          candidates[Len(candidates)], files, prefix)

ExcludedNever(name, exclude_prefixes) == FALSE

Excluded(name, exclude_prefixes) ==
    \E k \in 1..Len(exclude_prefixes) : StartsWith(name, exclude_prefixes[k])

(* positions, in input order, of the files that pass the filter *)
RECURSIVE Candidates(_, _, _, _)
Candidates(files, prefix, exclude_prefixes, i) ==
    IF i > Len(files) THEN << >>
    ELSE IF StartsWith(files[i].name, prefix) /\ ~Excluded(files[i].name, exclude_prefixes)
         THEN <<i>> \o Candidates(files, prefix, exclude_prefixes, i + 1)
         ELSE Candidates(files, prefix, exclude_prefixes, i + 1)

(* With up to three candidates list.sort compares every pair whose order   *)
(* it has to settle, so the TypeError is raised as soon as two candidates  *)
(* cannot be ordered.  The result tells the position of the file returned. *)
select_latest_file(files, prefix, exclude_prefixes) ==
    LET candidates == Candidates(files, prefix, exclude_prefixes, 1)
    IN  IF candidates = << >> THEN [kind |-> "none"]
        ELSE IF \E i, j \in 1..Len(candidates) :
                    CompareKeys(sort_key(files[candidates[i]], prefix),
                                sort_key(files[candidates[j]], prefix), 1) = "TypeError"
             THEN [kind |-> "TypeError"]
             ELSE LET first == SortDescending(candidates, files, prefix)[1]
                  IN  [kind |-> "file", idx |-> first, file |-> files[first]]

get_selection_reason(file_info, prefix) ==
    LET name_ts == parse_timestamp_from_name(file_info.name, prefix)
    IN  IF name_ts # None THEN [tier |-> "name_timestamp", at |-> name_ts]
        ELSE IF file_info.modifiedTime # None
             THEN [tier |-> "modifiedTime", at |-> parse_rfc3339(file_info.modifiedTime)]
             ELSE IF file_info.createdTime # None
                  THEN [tier |-> "createdTime", at |-> parse_rfc3339(file_info.createdTime)]
                  ELSE [tier |-> "no_timestamp"]

Rfc(ymd, hms, zone) == [ymd |-> ymd, hms |-> hms, zone |-> zone]

File(name, modifiedTime, createdTime) == [name |-> name, modifiedTime |-> modifiedTime, createdTime |-> createdTime]

Jan1 == <<2024, 1, 1>>

(* files of a listing: names "P_240101", "P_240102_010203", "P",           *)
(* "PX_250101", "Q_250101", "P_241301", "P_240230_1", "P2401011x" and the  *)
(* empty name, with and without modified and created times                 *)
FileShapes ==
    { File(<<80, 95, 50, 52, 48, 49, 48, 49>>, Rfc(Jan1, <<10, 0, 0>>, "Z"), Rfc(Jan1, <<5, 0, 0>>, "Z")),
      File(<<80, 95, 50, 52, 48, 49, 48, 49>>, Rfc(Jan1, <<12, 0, 0>>, "Z"), Rfc(Jan1, <<5, 0, 0>>, "Z")),
      File(<<80, 95, 50, 52, 48, 49, 48, 49>>, Rfc(Jan1, <<10, 0, 0>>, "Z"), Rfc(Jan1, <<9, 0, 0>>, "Z")),
      File(<<80, 95, 50, 52, 48, 49, 48, 50, 95, 48, 49, 48, 50, 48, 51>>, None, None),
      File(<<80>>, Rfc(Jan1, <<10, 0, 0>>, "Z"), Rfc(Jan1, <<5, 0, 0>>, "Z")),
      File(<<80>>, Rfc(Jan1, <<19, 0, 0>>, "+09:00"), Rfc(Jan1, <<5, 0, 0>>, "Z")),
      File(<<80>>, None, Rfc(Jan1, <<7, 0, 0>>, "Z")),
      File(<<80>>, None, None),
      File(<<80, 88, 95, 50, 53, 48, 49, 48, 49>>, Rfc(<<2025, 1, 1>>, <<20, 0, 0>>, "Z"), None),
      File(<<81, 95, 50, 53, 48, 49, 48, 49>>, Rfc(<<2025, 1, 1>>, <<20, 0, 0>>, "Z"), None),
      File(<<80, 95, 50, 52, 49, 51, 48, 49>>, Rfc(Jan1, <<3, 0, 0>>, "+09:00"), Rfc(Jan1, <<6, 0, 0>>, "Z")),
      File(<<80, 95, 50, 52, 48, 50, 51, 48, 95, 49>>, Rfc(<<2023, 12, 31>>, <<18, 0, 0>>, "Z"), Rfc(Jan1, <<5, 0, 0>>, "Z")),
      File(<<80, 50, 52, 48, 49, 48, 49, 49, 120>>, None, None),
      File(<< >>, Rfc(<<2025, 1, 1>>, <<20, 0, 0>>, "Z"), None) }

RECURSIVE Listings(_)
Listings(n) ==
    IF n = 0 THEN { << >> }
    ELSE LET shorter == Listings(n - 1)
         IN  shorter \cup { Append(l, f) : l \in { k \in shorter : Len(k) = n - 1 }, f \in FileShapes }

SelectorCalls ==
    [fn : {"select_latest_file"}, files : Listings(MaxFiles), prefix : { <<80>> },
     exclude_prefixes : { << >>, << <<80, 88>>, <<90>> >> }]

CallSelectLatestFile ==
    /\ arg.fn = "select_latest_file" /\ ret = << >>
    /\ ret' = <<select_latest_file(arg.files, arg.prefix, arg.exclude_prefixes)>>
    /\ UNCHANGED <<arg, program>>

(* run_update asks for the reason of the file the selector returned *)
CallGetSelectionReason ==
    /\ arg.fn = "select_latest_file" /\ Len(ret) = 1 /\ ret[1].kind = "file"
    /\ ret' = Append(ret, get_selection_reason(ret[1].file, arg.prefix))
    /\ UNCHANGED <<arg, program>>

(* labels given to a1_to_col: upper and lower case, with digits, blanks    *)
(* and other characters before, between and after the letters              *)
CodecLabels ==
    { << >>, <<66>>, <<98>>, <<90>>, <<122>>, <<65, 65>>, <<97, 90>>, <<65, 122>>,
      <<122, 122>>, <<97, 65, 97>>, <<65, 49>>, <<97, 49, 98>>, <<49>>, <<49, 65>>,
      <<32, 122>>, <<66, 50, 58, 66, 53, 48>>, <<99, 36, 51>>, <<64>>, <<91>>,
      <<96, 65>>, <<123>>, <<75, 91, 75>> }

CodecCalls ==
    [fn : {"col_to_a1"}, index : (-2)..MaxIndex]
        \cup [fn : {"a1_to_col"}, a1 : CodecLabels]

CallColToA1 ==
    /\ arg.fn = "col_to_a1" /\ ret = << >>
    /\ ret' = <<col_to_a1(arg.index)>>
    /\ UNCHANGED <<arg, program>>

(* a1_to_col of a label, or of the label col_to_a1 has just returned *)
CallA1ToCol ==
    /\ \/ arg.fn = "a1_to_col" /\ ret = << >> /\ ret' = <<a1_to_col(arg.a1)>>
       \/ arg.fn = "col_to_a1" /\ Len(ret) = 1 /\ ret' = Append(ret, a1_to_col(ret[1]))
    /\ UNCHANGED <<arg, program>>

(* ---- the metadata store ----------------------------------------------- *)
(* The metadata sheet is a sequence of rows, a row the contents of its     *)
(* cells A and B as character codes, the empty sequence an empty cell.     *)
MetaRow(name, label) == [name |-> name, label |-> label]

(* a row of the answer to values.get: cells after the last filled one are  *)
(* left out                                                                *)
RowValues(r) ==
    IF r.label # << >> THEN <<r.name, r.label>>
    ELSE IF r.name # << >> THEN <<r.name>> ELSE << >>

(* values.get over the range meta_range, which starts at A1 and spans the  *)
(* sheet: the rows up to the last one with a filled cell                   *)
MetaValues(sheet) ==
    LET filled == { i \in 1..Len(sheet) : RowValues(sheet[i]) # << >> }
        n == IF filled = {} THEN 0 ELSE CHOOSE i \in filled : \A j \in filled : j <= i
    IN  [i \in 1..n |-> RowValues(sheet[i])]

(* result[key] = value of a dict *)
Put(result, key, value) ==
    [k \in (DOMAIN result) \cup {key} |-> IF k = key THEN value ELSE result[k]]

(* for row in values[1:]: the loop of get_master_meta_map over the table *)
RECURSIVE ScanRows(_, _, _)
ScanRows(rows, i, result) ==
    IF i > Len(rows) THEN result
    ELSE IF Len(rows[i]) < 2 THEN ScanRows(rows, i + 1, result)
    ELSE LET tab_name == Strip(rows[i][1])
             last_col == UpperStr(Strip(rows[i][2]))
         IN  IF tab_name # << >> /\ last_col # << >>
             THEN ScanRows(rows, i + 1, Put(result, tab_name, last_col))
             ELSE ScanRows(rows, i + 1, result)

(* for tab_name, row_idx in meta_rows.items(): one cell B{row_idx} per tab *)
CellRead(sheet, meta_rows) ==
    LET present == { t \in DOMAIN meta_rows :
                        meta_rows[t] \in 1..Len(sheet) /\ sheet[meta_rows[t]].label # << >> }
    IN  [t \in present |-> UpperStr(Strip(sheet[meta_rows[t]].label))]

get_master_meta_map(sheet, meta_rows) ==
    IF DOMAIN meta_rows # {} THEN CellRead(sheet, meta_rows)
    ELSE ScanRows(MetaValues(sheet), 2, << >>)

(* values.update of the cell B{idx} with RAW input *)
WriteLabel(sheet, idx, label) == [sheet EXCEPT ![idx].label = label]

(* for idx, row in enumerate(values[1:], start=2): the first row whose     *)
(* name is the tab, 0 when the loop ends without one                       *)
RECURSIVE ScanMatch(_, _, _)
ScanMatch(rows, idx, tab_name) ==
    IF idx > Len(rows) THEN 0
    ELSE IF rows[idx] # << >> /\ Strip(rows[idx][1]) = tab_name THEN idx
    ELSE ScanMatch(rows, idx + 1, tab_name)

(* the sheet after update_master_meta and the row it wrote, 0 for none *)
update_master_meta(sheet, meta_rows, tab_name, label) ==
    IF tab_name \in DOMAIN meta_rows
    THEN [sheet |-> WriteLabel(sheet, meta_rows[tab_name], label), row |-> meta_rows[tab_name]]
    ELSE LET idx == ScanMatch(MetaValues(sheet), 2, tab_name)
         IN  IF idx = 0 THEN [sheet |-> sheet, row |-> 0]
             ELSE [sheet |-> WriteLabel(sheet, idx, label), row |-> idx]

(* tab names "T1", "T2", "T3" *)
NameT1 == <<84, 49>>
NameT2 == <<84, 50>>
NameT3 == <<84, 51>>

(* rows of a metadata table: "T1" with "B", " T1 " with " b", "T2" with    *)
(* "C", "T1" without label, an empty row, a label without name, "t1"       *)
MetaRowShapes ==
    { MetaRow(NameT1, <<66>>), MetaRow(<<32, 84, 49, 32>>, <<32, 98>>),
      MetaRow(NameT2, <<67>>), MetaRow(NameT1, << >>), MetaRow(<< >>, << >>),
      MetaRow(<< >>, <<68>>), MetaRow(<<116, 49>>, <<69>>) }

RECURSIVE MetaTables(_)
MetaTables(n) ==
    IF n = 0 THEN { << >> }
    ELSE { Append(t, r) : t \in MetaTables(n - 1), r \in MetaRowShapes }

(* the header row and the rows under it *)
MetaSheets == { <<MetaRow(<<116, 97, 98>>, <<99, 111, 108>>)>> \o t : t \in MetaTables(MaxMetaRows - 1) }

(* master_meta_rows: not configured, or a row for every tracked tab *)
MetaRowMaps ==
    { << >>, [t \in {NameT1, NameT2} |-> IF t = NameT1 THEN 2 ELSE 3],
      [t \in {NameT1, NameT2} |-> IF t = NameT1 THEN 4 ELSE 2] }

MetaCalls ==
    [fn : {"update_master_meta"}, sheet : MetaSheets, meta_rows : MetaRowMaps,
     tab_name : {NameT1, NameT2}, new_col : { <<67>>, <<65, 65>> }]

CallUpdateMasterMeta ==
    /\ arg.fn = "update_master_meta" /\ ret = << >>
    /\ ret' = <<update_master_meta(arg.sheet, arg.meta_rows, arg.tab_name, arg.new_col)>>
    /\ UNCHANGED <<arg, program>>

(* the next attempt or job reads the metadata update_master_meta left *)
CallGetMasterMetaMap ==
    /\ arg.fn = "update_master_meta" /\ Len(ret) = 1
    /\ ret' = Append(ret, get_master_meta_map(ret[1].sheet, arg.meta_rows))
    /\ UNCHANGED <<arg, program>>

PureCalls == CodecCalls \cup SelectorCalls \cup MetaCalls

PureInit ==
    /\ InitOf(CHOOSE sc \in Scenarios : sc.absent = {"S2"}, FALSE)
    /\ arg \in PureCalls /\ ret = << >>

PureNext == CallColToA1 \/ CallA1ToCol \/ CallSelectLatestFile \/ CallGetSelectionReason \/ CallUpdateMasterMeta \/ CallGetMasterMetaMap

PureSpec == PureInit /\ [][PureNext]_vars

(* ---------------------------------------------------------------------- *)
(* Properties                                                              *)
(* ---------------------------------------------------------------------- *)
Norm(label) == UpperStr(Strip(label))

(* min(declared row count, ceiling) of a tab *)
Ceiling(rc) == IF cfg.max_rows > 0 /\ cfg.max_rows < rc THEN cfg.max_rows ELSE rc

InTab == job = "update" /\ pc \in AppendRequests \cup {"return"}

Reads == SelectSeq(log, LAMBDA e : e.op = "fread")

UpdateEnded == job = "update" /\ pc = "idle" /\ exitCode = 0
FreezeEnded == job = "freeze" /\ pc = "idle" /\ exitCode = 0

(* the metadata the job started with names a column *)
ValidAtStart(t) == a1_to_col(Norm(meta0[t])) >= 1

(* what a freeze leaves in a cell *)
Frozen(cell, st) == IF cell.k = "F" THEN Lit(Eval(cell.x, st)) ELSE cell

SameInBothModes(cell, st) ==
    cell = Empty \/ Render(cell, "FORMULA", st) = Render(cell, "UNFORMATTED_VALUE", st)

(* C5: whenever update_master_tab does not skip, the column that receives   *)
(* the header and the label it returns have index a1_to_col(last) + 1       *)
(* ("C" gives "D", "Z" gives "AA"), and every change of a tab's metadata    *)
(* raises its column index by exactly 1.                                    *)
C5_Step ==
    /\ (job = "update" /\ pc = "header" /\ Len(log') > Len(log)) =>
          LET c == a1_to_col(master_meta[CurTab]) + 1
          IN  /\ log'[Len(log')].op = "header" /\ log'[Len(log')].c = c
              /\ CellAt(grid'[CurTab], c, 1) = Lit(today)
              /\ \A q \in DOMAIN grid'[CurTab] :
                    (q[2] = 1 /\ q[1] # c) => CellAt(grid[CurTab], q[1], 1) = grid'[CurTab][q]
    /\ (job = "update" /\ pc = "return" /\ pc' = "returned") =>
          /\ a1_to_col(new_col') = a1_to_col(master_meta[CurTab]) + 1
          /\ master_meta[CurTab] = <<67>> => new_col' = <<68>>
          /\ master_meta[CurTab] = <<90>> => new_col' = <<65, 65>>
    /\ \A t \in Tabs : metaCell'[t] # metaCell[t] =>
          a1_to_col(Norm(metaCell'[t])) = a1_to_col(Norm(metaCell[t])) + 1

C5_NewColumnIsSuccessor == [][C5_Step]_vars

C5_Witness ==
    /\ job = "update" /\ pc = "idle" /\ exitCode = 0
    /\ metaCell["T1"] = <<65, 65>>
    /\ CellAt(grid["T1"], 27, 1) = Lit(today)

(* C6: the chunks of update_master_tab are contiguous row ranges of at most *)
(* c rows in increasing order that cover rows 2..effectiveRowCount, every   *)
(* request of a chunk stays within it, no row beyond effectiveRowCount is   *)
(* touched; 50 rows with chunk size 20 give 2-21, 22-41, 42-50.             *)
C6_ChunkPartition ==
    InTab =>
        LET eff == Ceiling(sheet_props[CurTab].rowCount)
            c   == IF cfg.chunk_size >= 1 THEN cfg.chunk_size ELSE 1
            rd  == Reads
        IN  /\ \A i \in 1..Len(rd) :
                /\ rd[i].a = (IF i = 1 THEN 2 ELSE rd[i - 1].b + 1)
                /\ rd[i].a <= rd[i].b
                /\ rd[i].b - rd[i].a + 1 <= c
                /\ rd[i].b <= eff
            /\ \A i \in 1..Len(log) :
                log[i].op \in {"fwrite", "vread", "vwrite"} =>
                    \E j \in 1..Len(rd) : rd[j].a = log[i].a /\ rd[j].b = log[i].b
            /\ pc = "return" => Len(rd) > 0 /\ rd[Len(rd)].b = eff
            /\ (pc = "return" /\ eff = 50 /\ c = 20) =>
                  [i \in 1..Len(rd) |-> <<rd[i].a, rd[i].b>>]
                      = << <<2, 21>>, <<22, 41>>, <<42, 50>> >>
            /\ \A q \in (DOMAIN grid[CurTab]) \cup (DOMAIN grid0[CurTab]) :
                  q[2] > eff => CellAt(grid[CurTab], q[1], q[2])
                                    = CellAt(grid0[CurTab], q[1], q[2])

C6_Witness ==
    /\ job = "update" /\ pc = "return" /\ Len(Reads) = 3
    /\ sheet_props[CurTab].rowCount = 50 /\ cfg.chunk_size = 20
    /\ CellAt(grid[CurTab], 11, 50) = Fml(1)

(* C7: a tab whose effective row count is <= 1 gets no structural update    *)
(* and no value write, update_master_tab returns the label it was given,    *)
(* and run_update writes no metadata for the tab.                           *)
C7_SkipRule ==
    \A t \in Tabs :
        (job = "update" /\ Ceiling(rowCount[t]) <= 1) =>
            /\ grid[t] = grid0[t]
            /\ metaCell[t] = meta0[t]
            /\ metaWrites[t] = 0
            /\ pc \in AppendRequests \cup {"tab", "return", "returned", "metaupd"} =>
                    /\ colCount[t] = sheet_props[t].columnCount
                    /\ tabIdx <= Len(master_tabs) /\ CurTab = t =>
                            /\ pc \in {"tab", "returned"}
                            /\ pc = "returned" => new_col = master_meta[t]

C7_Witness ==
    /\ job = "update" /\ pc = "tab" /\ tabIdx = 2 /\ attempt = 2
    /\ Ceiling(rowCount["T1"]) <= 1 /\ metaCell["T1"] # << >>
    /\ Ceiling(rowCount["T2"]) > 1

(* C3: the metadata entry of a tab is overwritten with label L only after   *)
(* the header of column L and every chunk of rows 2..effectiveRowCount were *)
(* written in the same attempt; while the append of a tab is under way, and *)
(* so whenever one of its requests fails, the tab's metadata is still the   *)
(* one the attempt read.                                                    *)
C3_Step ==
    \A t \in Tabs : metaCell'[t] # metaCell[t] =>
        LET l   == a1_to_col(Norm(metaCell'[t]))
            eff == Ceiling(rowCount[t])
            rd  == Reads
        IN  /\ job = "update" /\ t = CurTab
            /\ \E i \in 1..Len(log) : log[i].op = "header" /\ log[i].c = l
            /\ CellAt(grid[t], l, 1) = Lit(today)
            /\ Len(rd) > 0 /\ rd[1].a = 2 /\ rd[Len(rd)].b = eff
            /\ \A i \in 2..Len(rd) : rd[i].a = rd[i - 1].b + 1
            /\ \A i \in 1..Len(rd) :
                  (\E r \in rd[i].a..rd[i].b : CellAt(grid[t], l - 1, r) # Empty) =>
                      \E j \in 1..Len(log) :
                          /\ log[j].op = "fwrite" /\ log[j].c = l
                          /\ log[j].a = rd[i].a /\ log[j].b = rd[i].b
            /\ \A r \in 2..eff :
                  CellAt(grid[t], l - 1, r) # Empty => CellAt(grid[t], l, r) # Empty

C3_Pending == InTab => Norm(metaCell[CurTab]) = master_meta[CurTab]

C3_MetadataAfterAppend == [][C3_Step]_vars /\ []C3_Pending

C3_Witness ==
    /\ job = "update" /\ pc = "list" /\ attempt = 2
    /\ metaWrites["T1"] = 1 /\ "T2" \in failedTabs

(* C1: when an attempt of update_master_tab for a tab fails and the run is *)
(* re-executed with the metadata still naming the same previous column,    *)
(* the tab after the successful retry is what one failure-free append      *)
(* produces; every live formula of the previous column is in the new one.  *)
C1_RetryLosesNothing ==
    UpdateEnded =>
        \A t \in Tabs :
            (t \in failedTabs /\ metaWrites[t] = 1 /\ ValidAtStart(t)) =>
                /\ grid[t] = FullAppend(grid0[t], Norm(meta0[t]), rowCount[t],
                                        colCount[t], cfg.max_rows, cfg.chunk_size,
                                        cfg.freeze, today, stage)
                /\ \A r \in 2..Ceiling(rowCount[t]) :
                      LET p == a1_to_col(Norm(meta0[t]))
                      IN  CellAt(grid0[t], p, r).k = "F" =>
                              CellAt(grid[t], p + 1, r) = CellAt(grid0[t], p, r)

(* C2: update_master_tab run twice with the same arguments, the metadata   *)
(* not advanced in between, leaves the tab as one run leaves it.           *)
C2_AppendIdempotent ==
    (job = "update" /\ pc = "return" /\ failedTabs = {}
        /\ metaWrites[CurTab] = 0 /\ ValidAtStart(CurTab)) =>
            grid[CurTab] = FullAppend(grid0[CurTab], master_meta[CurTab],
                                      rowCount[CurTab], colCount[CurTab],
                                      cfg.max_rows, cfg.chunk_size, cfg.freeze,
                                      today, stage)

(* dated columns of a tab to the right of the column its metadata named    *)
(* when the job started                                                    *)
NewHeaders(t) ==
    {q[1] : q \in {o \in DOMAIN grid[t] :
                      o[2] = 1 /\ o[1] > a1_to_col(Norm(meta0[t]))}}

(* C4: when the append job exits with code 0, every tracked tab that is    *)
(* not skipped has gained exactly one dated column and its metadata was    *)
(* overwritten exactly once, whatever the number of attempts.              *)
C4_OneColumnPerRun ==
    UpdateEnded =>
        \A t \in Tabs :
            (Ceiling(rowCount[t]) > 1 /\ ValidAtStart(t)) =>
                /\ metaWrites[t] = 1
                /\ a1_to_col(Norm(metaCell[t])) = a1_to_col(Norm(meta0[t])) + 1
                /\ Cardinality(NewHeaders(t)) = 1

(* C8: a tracked tab whose metadata label parses to an index <= 0 is       *)
(* skipped by the append job: no structural update, no value write, no     *)
(* metadata write for that tab.                                            *)
C8_InvalidColumnSkipped ==
    \A t \in Tabs :
        (job = "update" /\ meta0[t] # << >> /\ ~ValidAtStart(t)) =>
            /\ grid[t] = grid0[t]
            /\ metaCell[t] = meta0[t]
            /\ metaWrites[t] = 0

(* C9: when the freeze of a column is complete (freeze job, or append with *)
(* freeze-on-append for the previous column), every row                    *)
(* 2..effectiveRowCount of it reads the same in formula mode and in value  *)
(* mode and holds the value the cell computed before it was frozen.        *)
C9_FreezeJobDone ==
    FreezeEnded =>
        \A t \in Tabs :
            LET c   == a1_to_col(Norm(metaCell[t])) - 1
                eff == Ceiling(rowCount[t])
            IN  (c >= 1 /\ eff > 1) =>
                    \A r \in 2..eff :
                        /\ SameInBothModes(CellAt(grid[t], c, r), stage)
                        /\ CellAt(grid[t], c, r) = Frozen(CellAt(grid0[t], c, r), stage)

C9_AppendDone ==
    (job = "update" /\ pc = "return" /\ cfg.freeze
        /\ a1_to_col(master_meta[CurTab]) >= 1) =>
            \A r \in 2..Ceiling(rowCount[CurTab]) :
                SameInBothModes(
                    CellAt(grid[CurTab], a1_to_col(master_meta[CurTab]), r), stage)

C9_Step ==
    (job = "update" /\ pc = "vwrite" /\ Len(log') > Len(log)
        /\ a1_to_col(master_meta[CurTab]) >= 1) =>
            LET e == log'[Len(log')]
            IN  \A r \in e.a..e.b :
                    CellAt(grid'[CurTab], a1_to_col(master_meta[CurTab]), r)
                        = Frozen(CellAt(grid[CurTab], a1_to_col(master_meta[CurTab]), r),
                                 stage)

FrozenTab(g, c, eff, st) ==
    [q \in DOMAIN g |->
        IF q[1] = c /\ q[2] >= 2 /\ q[2] <= eff THEN Frozen(g[q], st) ELSE g[q]]

C10_FreezeJobDone ==
    FreezeEnded =>
        \A t \in Tabs :
            LET c   == a1_to_col(Norm(meta0[t])) - 1
                eff == Ceiling(rowCount[t])
            IN  /\ grid[t] = IF c >= 1 /\ eff > 1
                             THEN FrozenTab(grid0[t], c, eff, stage) ELSE grid0[t]
                /\ (\A r \in 2..eff : CellAt(grid0[t], c, r).k # "F") =>
                        grid[t] = grid0[t]

C10_Step ==
    (job = "freeze" /\ pc = "f_chunk" /\ Len(log') > Len(log)) =>
        LET e == log'[Len(log')]
        IN  (\A r \in e.a..e.b : CellAt(grid[CurTab], e.c, r).k # "F") => grid' = grid

C10_FreezeIdempotent == []C10_FreezeJobDone /\ [][C10_Step]_vars

C10_Witness ==
    /\ FreezeEnded /\ attempt > 1 /\ "T1" \in failedTabs
    /\ CellAt(grid0["T1"], 1, 4) = Fml(3)
    /\ CellAt(grid["T1"], 1, 4) = Lit(Eval(3, stage))

(* a required tab or a required metadata entry is missing where the      *)
(* running job is about to look for it                                     *)
MappingTargetAbsent ==
    pc = "select" /\ mapIdx >= 1 /\ mapIdx <= Len(mappings) /\ CurTarget \notin titles

TrackedTabUnusable ==
    tabIdx >= 1 /\ tabIdx <= Len(master_tabs)
        /\ (CurTab \notin titles \/ Norm(metaCell[CurTab]) = << >>)

(* C11: when a mapping's target tab or a tracked tab is absent from the    *)
(* spreadsheet, or a tracked tab has no metadata, main of the append job   *)
(* ends in the attempt that finds it, with exit code 2, which is neither   *)
(* 0 nor 1, and issues no further request; exit code 2 has no other cause. *)
C11_Step ==
    /\ (job = "update" /\ (MappingTargetAbsent \/ (pc = "tab" /\ TrackedTabUnusable))) =>
          /\ pc' = "idle" /\ exitCode' = 2 /\ exitCode' \notin {0, 1}
          /\ attempt' = attempt /\ remote' = remote
    /\ (job = "update" /\ exitCode' = 2 /\ exitCode # 2) =>
          (MappingTargetAbsent \/ (pc = "tab" /\ TrackedTabUnusable))

C11_ConfigErrorExit == [][C11_Step]_vars

C11_Witness ==
    /\ job = "update" /\ pc = "idle" /\ exitCode = 2 /\ attempt = 2
    /\ "T2" \notin titles /\ metaWrites["T1"] = 1

(* C12: when a tracked tab is absent from the spreadsheet or has no        *)
(* metadata, the freeze job ends in the attempt that finds it, without a   *)
(* retry, with an exit status other than the one for exhausted retries.    *)
C12_Step ==
    (job = "freeze" /\ pc = "f_tab" /\ TrackedTabUnusable) =>
        /\ pc' = "idle" /\ attempt' = attempt
        /\ exitCode' \notin {0, 1}

C12_FreezeConfigErrorExit == [][C12_Step]_vars

(* locals of run_update as a fresh call has them *)
FreshRun ==
    /\ sheet_props = << >> /\ master_meta = << >> /\ tabIdx = 0 /\ mapIdx = 0
    /\ row = 0 /\ formulas = NoVals /\ values = NoVals /\ new_col = << >>

(* C13: main of the append job always terminates; it runs run_update at   *)
(* most RETRY_COUNT (3) times, every attempt from the beginning of the     *)
(* run; it returns 0 at the first attempt that completes and makes no      *)
(* attempt after it; it returns 1 exactly when the third attempt in a row  *)
(* failed with an error that is not a configuration error.                 *)
C13_Step ==
    job' = "update" =>
        /\ attempt' # attempt =>
              \/ pc = "idle" /\ attempt' = 1 /\ pc' = "list" /\ FreshRun'
              \/ /\ job = "update" /\ pc \in UpdateRequests /\ fails' = fails + 1
                 /\ attempt < RETRY_COUNT /\ attempt' = attempt + 1
                 /\ pc' = "list" /\ FreshRun'
        /\ (exitCode' = 0 /\ exitCode # 0) =>
              /\ pc = "tab" /\ tabIdx > Len(master_tabs)
              /\ pc' = "idle" /\ attempt' = attempt
        /\ (exitCode' = 1 /\ exitCode # 1) =>
              /\ pc \in UpdateRequests /\ fails' = fails + 1
              /\ attempt = RETRY_COUNT /\ attempt' = attempt /\ pc' = "idle"
        /\ (job = "update" /\ pc \in UpdateRequests /\ fails' = fails + 1
                /\ attempt = RETRY_COUNT /\ pc' # "select") =>
              exitCode' = 1 /\ pc' = "idle"
        /\ (job = "update" /\ pc = "idle") => pc' = "idle" \/ attempt' = 1

C13_Bounded ==
    job = "update" =>
        /\ attempt >= 1 /\ attempt <= RETRY_COUNT
        /\ pc = "idle" => exitCode \in {0, 1, 2}
        /\ (pc = "idle" /\ exitCode = 1) => attempt = RETRY_COUNT
        /\ pc # "idle" => exitCode = -1

C13_Terminates == (job = "update" /\ pc # "idle") ~> (pc = "idle")

C13_BoundedRetry == [][C13_Step]_vars /\ []C13_Bounded /\ C13_Terminates

C13_Witness ==
    /\ job = "update" /\ pc = "idle" /\ exitCode = 1 /\ attempt = RETRY_COUNT
    /\ fails = RETRY_COUNT

IsLetter(ch) == (65 <= ch /\ ch <= 90) \/ (97 <= ch /\ ch <= 122)

(* length of the run of letters a label starts with *)
LetterRun(l) ==
    CHOOSE k \in 0..Len(l) :
        /\ \A i \in 1..k : IsLetter(l[i])
        /\ k = Len(l) \/ ~IsLetter(l[k + 1])

(* number of a letter in the alphabet, whatever its case *)
LetterNo(ch) == IF ch >= 97 THEN ch - 96 ELSE ch - 64

(* bijective base-26 value of the first k characters of a label *)
RECURSIVE PlaceValue(_, _)
PlaceValue(l, k) == IF k = 0 THEN 0 ELSE 26 * PlaceValue(l, k - 1) + LetterNo(l[k])

(* C14: a1_to_col(col_to_a1(n)) = n for every n >= 1; col_to_a1(n) is the *)
(* empty label for every n <= 0; a1_to_col reads letters in either case    *)
(* and stops at the first character that is not a letter.                  *)
C14_CodecRoundTrip ==
    /\ (arg.fn = "col_to_a1" /\ Len(ret) >= 1) =>
          /\ arg.index <= 0 => ret[1] = << >>
          /\ arg.index >= 1 => Len(ret[1]) >= 1 /\ \A i \in 1..Len(ret[1]) :
                                                    65 <= ret[1][i] /\ ret[1][i] <= 90
          /\ Len(ret) = 2 /\ arg.index >= 1 => ret[2] = arg.index
    /\ (arg.fn = "a1_to_col" /\ Len(ret) = 1) =>
          ret[1] = PlaceValue(arg.a1, LetterRun(arg.a1))

C14_Witness ==
    /\ arg.fn = "col_to_a1" /\ arg.index = 703
    /\ ret = << <<65, 65, 65>>, 703 >>

SelectDone == arg.fn = "select_latest_file" /\ Len(ret) >= 1

HasPrefix(name, p) == Len(name) >= Len(p) /\ SubSeq(name, 1, Len(p)) = p

(* positions of the files whose name starts with the prefix and with no    *)
(* excluded prefix                                                         *)
Passing ==
    { i \in 1..Len(arg.files) :
        /\ HasPrefix(arg.files[i].name, arg.prefix)
        /\ \A k \in 1..Len(arg.exclude_prefixes) :
               ~HasPrefix(arg.files[i].name, arg.exclude_prefixes[k]) }

(* a timestamp as a pair of numbers, an absent one below every present one *)
Rank(ts) == IF ts = None THEN <<0, 0>> ELSE <<ts.day, ts.sec>>

NameRank(f) == Rank(parse_timestamp_from_name(f.name, arg.prefix))

ModifiedRank(f) == Rank(IF f.modifiedTime = None THEN None ELSE parse_rfc3339(f.modifiedTime))

CreatedRank(f) == Rank(IF f.createdTime = None THEN None ELSE parse_rfc3339(f.createdTime))

RankKey(f) == NameRank(f) \o ModifiedRank(f) \o CreatedRank(f)

RECURSIVE LexLess(_, _)
LexLess(a, b) ==
    /\ a # << >>
    /\ \/ a[1] < b[1]
       \/ a[1] = b[1] /\ LexLess(Tail(a), Tail(b))

(* C15: among the candidates that pass the filter the selector returns one *)
(* whose key (name timestamp, modified, created) is the lexicographic      *)
(* maximum, an absent component ranking below every present one, and it    *)
(* always returns a candidate, never an error.                             *)
C15_SelectorRanking ==
    (SelectDone /\ Passing # {}) =>
        /\ ret[1].kind = "file"
        /\ \A j \in Passing : ~LexLess(RankKey(ret[1].file), RankKey(arg.files[j]))

(* C16: the selector never returns a file whose name lacks the prefix or   *)
(* starts with an excluded prefix, and it returns "no candidate" exactly   *)
(* when no file passes the filter.                                         *)
C16_SelectorFilter ==
    SelectDone =>
        /\ ret[1].kind = "file" =>
              ret[1].idx \in Passing /\ ret[1].file = arg.files[ret[1].idx]
        /\ ret[1].kind = "none" <=> Passing = {}

(* an excluded file with the highest key is in the listing, another file   *)
(* is returned                                                             *)
C16_Witness ==
    /\ SelectDone /\ ret[1].kind = "file"
    /\ \E j \in 1..Len(arg.files) :
          /\ HasPrefix(arg.files[j].name, arg.prefix) /\ j \notin Passing
          /\ LexLess(RankKey(ret[1].file), RankKey(arg.files[j]))

(* C17: when filtered candidates have equal keys, the selector returns the *)
(* one that comes first in the input order: the file returned has the      *)
(* greatest key and no candidate before it has the same key.               *)
C17_TieFirstInInput ==
    (SelectDone /\ ret[1].kind = "file") =>
        \A j \in Passing :
            /\ ~LexLess(RankKey(ret[1].file), RankKey(arg.files[j]))
            /\ sort_key(arg.files[j], arg.prefix) = sort_key(ret[1].file, arg.prefix)
                  => ret[1].idx <= j

(* the first of two different files with equal keys is returned *)
C17_Witness ==
    /\ SelectDone /\ ret[1].kind = "file" /\ ret[1].idx < Len(arg.files)
    /\ \E j \in Passing :
          /\ j > ret[1].idx /\ arg.files[j] # ret[1].file
          /\ sort_key(arg.files[j], arg.prefix) = sort_key(ret[1].file, arg.prefix)

(* the tier that separates the file returned from the other candidates *)
DecidingTier ==
    LET w == ret[1].file
        others == { arg.files[j] : j \in Passing \ {ret[1].idx} }
        sameName == { f \in others : NameRank(f) = NameRank(w) }
        sameModified == { f \in sameName : ModifiedRank(f) = ModifiedRank(w) }
    IN  IF \A f \in others : LexLess(NameRank(f), NameRank(w)) THEN "name_timestamp"
        ELSE IF \A f \in sameName : LexLess(ModifiedRank(f), ModifiedRank(w)) THEN "modifiedTime"
        ELSE IF \A f \in sameModified : LexLess(CreatedRank(f), CreatedRank(w)) THEN "createdTime"
        ELSE "no_timestamp"

(* C18: the reason given for the file returned names the tier that decided *)
(* it against the other candidates: name timestamp when its name timestamp *)
(* is strictly greatest, modified time when name timestamps tie or are     *)
(* absent and modified time separates, created time when both tie, and no  *)
(* timestamp when nothing separates them.  Stated for the pools of two or  *)
(* more candidates in which the key of the file returned differs from the  *)
(* key of every other candidate, so that some tier does decide.            *)
C18_ReasonNamesDecidingTier ==
    (/\ arg.fn = "select_latest_file" /\ Len(ret) = 2 /\ Cardinality(Passing) >= 2
     /\ \A j \in Passing \ {ret[1].idx} : RankKey(arg.files[j]) # RankKey(ret[1].file)) =>
        ret[2].tier = DecidingTier

(* C19: when no file matches a mapping's prefix, run_update neither clears *)
(* nor writes that mapping's staging tab and raises no error; it goes on   *)
(* with the next mapping, and after the last mapping with the first        *)
(* tracked tab, in the same attempt.                                       *)
C19_Step ==
    /\ (job = "update" /\ pc = "skip") =>
          /\ remote' = remote
          /\ attempt' = attempt /\ exitCode' = exitCode /\ fails' = fails
          /\ pc' = "select" /\ mapIdx' = mapIdx + 1
    /\ (job = "update" /\ pc = "select" /\ mapIdx >= 1 /\ mapIdx <= Len(mappings)) =>
          /\ mapIdx' = mapIdx \/ (pc' = "idle" /\ exitCode' = 2)
          /\ pc' \in {"source", "skip", "idle"}
    /\ (job = "update" /\ pc = "select" /\ mapIdx > Len(mappings)) =>
          /\ pc' = "tab" /\ tabIdx' = 1
          /\ attempt' = attempt /\ exitCode' = exitCode

C19_SelectionMissNotFatal == [][C19_Step]_vars

(* the first mapping found no file and its staging tab is as it was, the   *)
(* second mapping was written and the tracked tabs were appended, all in   *)
(* the first attempt                                                       *)
C19_Witness ==
    /\ job = "update" /\ pc = "idle" /\ exitCode = 0 /\ attempt = 1 /\ fails = 0 /\ jobs = 1
    /\ stage = 1 /\ stage2 = 2
    /\ metaWrites["T1"] = 1

(* C20: every failure of a request made by the append job (structure      *)
(* read, metadata read or write, source read, clear, staging write,        *)
(* structural update, header write, chunk read, chunk write) ends the      *)
(* current attempt and reaches the retry loop of main: the run starts      *)
(* again from the beginning or main returns 1.                             *)
C20_Step ==
    (job = "update" /\ fails' = fails + 1) =>
        \/ pc' = "list" /\ attempt' = attempt + 1 /\ FreshRun'
        \/ pc' = "idle" /\ exitCode' = 1

C20_FailurePropagation == [][C20_Step]_vars

(* positions inside a running update_master_tab call *)
InAppend ==
    job = "update" /\ pc \in {"expand", "header", "fread", "fwrite", "vread", "vwrite", "return"}

(* C21: update_master_tab issues a structural update exactly when the new  *)
(* column index exceeds the declared column count of the tab; the update   *)
(* sets the column count to exactly the new column index and comes before  *)
(* the header write and every chunk write; within the declared count no    *)
(* structural update is issued; no step of either job lowers the row or    *)
(* column count of a tab.                                                  *)
C21_Step ==
    /\ (job = "update" /\ pc = "tab" /\ pc' \in {"expand", "header"}) =>
          (pc' = "expand" <=> NewColIndex(LastDateCol) > colCount[CurTab])
    /\ \A t \in Tabs : colCount'[t] >= colCount[t] /\ rowCount'[t] >= rowCount[t]
    /\ rowCount' = rowCount
    /\ colCount' # colCount =>
          /\ job = "update" /\ pc = "expand" /\ log = << >>
          /\ colCount' = [colCount EXCEPT ![CurTab] = NewColIndex(LastDateCol)]
          /\ grid' = grid /\ pc' = "header"

C21_Order ==
    InAppend =>
        /\ \A i \in 1..Len(log) : log[i].op = "expand" => i = 1
        /\ (log # << >> /\ log[1].op = "expand") =>
              /\ colCount[CurTab] = NewColIndex(LastDateCol)
              /\ colCount[CurTab] > sheet_props[CurTab].columnCount
        /\ (log # << >> /\ log[1].op # "expand") =>
              /\ NewColIndex(LastDateCol) <= colCount[CurTab]
              /\ colCount[CurTab] = sheet_props[CurTab].columnCount

C21_ColumnExpansion == [][C21_Step]_vars /\ []C21_Order

(* the tab was grown to the new column, then the header and a chunk were   *)
(* written                                                                 *)
C21_Witness ==
    /\ InAppend /\ Len(log) >= 4
    /\ log[1].op = "expand" /\ log[2].op = "header" /\ log[4].op = "fwrite"
    /\ colCount[CurTab] = log[1].c /\ colCount[CurTab] = sheet_props[CurTab].columnCount + 1

(* rows under the header whose name, blanks aside, is the tab *)
RowsNamed(sheet, tab_name) ==
    { i \in 2..Len(sheet) : Strip(sheet[i].name) = tab_name }

TableScan == arg.meta_rows = << >>

(* the metadata entry of a tab, << >> when the store has none *)
EntryOf(m, t) == IF t \in DOMAIN m THEN m[t] ELSE << >>

(* C22: in table-scan mode update_master_meta changes only the label cell  *)
(* of the first table row whose tab name equals the given tab and does     *)
(* nothing when no row matches; in row-indexed mode it writes exactly the  *)
(* cell at the configured row of the tab; in both modes the entry of every *)
(* other tab is unchanged and a following get_master_meta_map returns the  *)
(* written label for the tab.                                              *)
C22_MetadataWrite ==
    (arg.fn = "update_master_meta" /\ Len(ret) >= 1) =>
        LET named == RowsNamed(arg.sheet, arg.tab_name)
            first == CHOOSE i \in named : \A j \in named : i <= j
            before == get_master_meta_map(arg.sheet, arg.meta_rows)
            after == get_master_meta_map(ret[1].sheet, arg.meta_rows)
        IN  /\ (TableScan /\ named = {}) => ret[1].sheet = arg.sheet /\ ret[1].row = 0
            /\ (TableScan /\ named # {}) =>
                  ret[1].sheet = [arg.sheet EXCEPT ![first].label = arg.new_col]
            /\ ~TableScan =>
                  ret[1].sheet = [arg.sheet EXCEPT ![arg.meta_rows[arg.tab_name]].label = arg.new_col]
            /\ \A t \in {NameT1, NameT2, NameT3} \ {arg.tab_name} :
                  EntryOf(after, t) = EntryOf(before, t)
            /\ (Len(ret) = 2 /\ ret[1].row # 0) =>
                  EntryOf(ret[2], arg.tab_name) = arg.new_col

(* the request a step of update_master_tab has just made *)
Issued == log'[Len(log')]

SameChunk(e, f) == e.a = f.a /\ e.b = f.b

(* C23: with freeze-on-append the requests of a chunk come in the order    *)
(* formula read of the previous column, write of the new column, value     *)
(* read of the previous column, raw write of the previous column, and the  *)
(* next chunk starts after them; so when a row of the previous column is   *)
(* overwritten with its value, the same row of the new column already      *)
(* holds its formula-mode content.                                         *)
C23_Step ==
    (job = "update" /\ cfg.freeze /\ Len(log') > Len(log) /\ log # << >>) =>
        LET last == log[Len(log)]
            p == a1_to_col(master_meta[CurTab])
        IN  /\ Len(log') = Len(log) + 1
            /\ Issued.op = "header" => last.op = "expand"
            /\ Issued.op = "fread" =>
                  \/ last.op = "header" /\ Issued.a = 2
                  \/ last.op \in {"vread", "vwrite"} /\ Issued.a = last.b + 1
            /\ Issued.op = "fwrite" => last.op = "fread" /\ SameChunk(Issued, last)
            /\ Issued.op = "vread" =>
                  /\ last.op \in {"fread", "fwrite"} /\ SameChunk(Issued, last)
                  /\ last.op = "fread" => formulas = NoVals
            /\ Issued.op = "vwrite" =>
                  /\ last.op = "vread" /\ SameChunk(Issued, last)
                  /\ p >= 1 =>
                        \A r \in Issued.a..Issued.b :
                            CellAt(grid[CurTab], p, r) # Empty =>
                                CellAt(grid[CurTab], p + 1, r)
                                    = Enter(Render(CellAt(grid[CurTab], p, r), "FORMULA", stage),
                                            "USER_ENTERED")

C23_CopyBeforeFreeze == [][C23_Step]_vars

(* a chunk went through its four requests and the next chunk has begun *)
C23_Witness ==
    /\ InAppend /\ cfg.freeze
    /\ \E i \in 1..Len(log) :
          /\ i + 4 <= Len(log)
          /\ log[i].op = "fread" /\ log[i + 1].op = "fwrite" /\ log[i + 2].op = "vread"
          /\ log[i + 3].op = "vwrite" /\ log[i + 4].op = "fread"
          /\ log[i + 4].a = log[i + 3].b + 1
          /\ CellAt(grid[CurTab], a1_to_col(master_meta[CurTab]), log[i].a) = Lit(Eval(1, stage))
          /\ CellAt(grid[CurTab], a1_to_col(master_meta[CurTab]) + 1, log[i].a) = Fml(1)

(* cells a values.update anchored at column c, row r with values vals     *)
(* covers                                                                  *)
Covered(c, r, vals) == { <<o[1] + c, o[2] + r>> : o \in DOMAIN vals }

(* cells the request just made by update_master_tab writes *)
WrittenCells ==
    IF Issued.op = "header" THEN { <<NewColIndex(LastDateCol), 1>> }
    ELSE IF Issued.op = "fwrite" THEN Covered(NewColIndex(LastDateCol), row + 1, formulas)
    ELSE IF Issued.op = "vwrite" THEN Covered(AnchorCol(PrevColIndex(LastDateCol)), row + 1, values)
    ELSE {}

ChangedCells(t) ==
    { q \in (DOMAIN grid[t]) \cup (DOMAIN grid'[t]) : CellAt(grid'[t], q[1], q[2]) # CellAt(grid[t], q[1], q[2]) }

(* row 1 and rows 2..effective_rows of the new column and, with            *)
(* freeze-on-append, rows 2..effective_rows of the previous column         *)
AppendFrame ==
    LET n == a1_to_col(LastDateCol) + 1
    IN  { <<n, r>> : r \in 1..EffRows }
            \cup (IF cfg.freeze THEN { <<n - 1, r>> : r \in 2..EffRows } ELSE {})

(* C24: update_master_tab writes only row 1 and rows 2..effectiveRowCount  *)
(* of the new column and, with freeze-on-append, rows 2..effectiveRowCount *)
(* of the previous column; never the header row of the previous column,    *)
(* another column, another tab or the metadata sheet; with freeze-on-append *)
(* off the previous column is left unchanged.                               *)
C24_Step ==
    (job = "update" /\ pc \in AppendRequests /\ Len(log') > Len(log)) =>
        /\ WrittenCells \subseteq AppendFrame
        /\ ChangedCells(CurTab) \subseteq AppendFrame
        /\ \A t \in Tabs \ {CurTab} : grid'[t] = grid[t]
        /\ metaCell' = metaCell /\ stage' = stage /\ stage2' = stage2
        /\ stageRest' = stageRest

C24_AppendFrame == [][C24_Step]_vars

(* the column the freeze job works on for a tab: the one before the       *)
(* column the metadata points to                                           *)
FreezeTarget(t) == a1_to_col(Norm(metaCell[t])) - 1

(* C25: for every tab run_freeze writes only rows 2..effectiveRowCount of  *)
(* the column at index a1_to_col(metadata label) - 1, in contiguous        *)
(* ascending chunks that cover each of those rows once; it writes neither  *)
(* the column the metadata points to nor the header row; it skips the tab  *)
(* without a write when that index is below 1 or the effective row count   *)
(* is at most 1; after an append with freeze-on-append the column the      *)
(* freeze job targets is the column the append froze.                      *)
C25_Step ==
    /\ (job = "freeze" /\ pc = "f_chunk" /\ Len(log') > Len(log)) =>
          LET c == FreezeTarget(CurTab)
              eff == Ceiling(rowCount[CurTab])
          IN  /\ Issued.op = "paste" /\ Issued.c = c /\ c >= 1
              /\ Issued.a = (IF log = << >> THEN 2 ELSE log[Len(log)].b + 1)
              /\ Issued.a <= Issued.b /\ Issued.b <= eff
              /\ pc' = "f_tab" <=> Issued.b = eff
              /\ ChangedCells(CurTab) \subseteq { <<c, r>> : r \in Issued.a..Issued.b }
              /\ \A t \in Tabs \ {CurTab} : grid'[t] = grid[t]
    /\ (job = "freeze" /\ pc # "idle") =>
          /\ grid' # grid => pc = "f_chunk" /\ Len(log') > Len(log)
          /\ metaCell' = metaCell /\ colCount' = colCount /\ rowCount' = rowCount
    /\ (job = "freeze" /\ pc = "f_tab" /\ tabIdx <= Len(master_tabs) /\ ~TrackedTabUnusable
            /\ (FreezeTarget(CurTab) < 1 \/ Ceiling(rowCount[CurTab]) <= 1)) =>
          remote' = remote /\ pc' = "f_tab" /\ tabIdx' = tabIdx + 1
    /\ (job = "update" /\ pc = "metaupd" /\ metaCell' # metaCell /\ cfg.freeze) =>
          \A i \in 1..Len(log) :
              log[i].op = "vwrite" => log[i].c = a1_to_col(Norm(metaCell'[CurTab])) - 1

C25_FreezeLeavesLiveColumn == [][C25_Step]_vars

(* after an append with freeze-on-append moved the metadata from "Z" to    *)
(* "AA", the freeze job has pasted rows 2..3 of column 26                  *)
C25_Witness ==
    /\ job = "freeze" /\ cfg.freeze /\ jobs = 2
    /\ metaCell["T1"] = <<65, 65>>
    /\ log # << >> /\ log[1].op = "paste" /\ log[1].c = 26 /\ log[1].a = 2
    /\ log[Len(log)].b = 3

(* the non-empty cells of staging tab t, by row and column offset from A1 *)
StageContent(t, first, second, rest) ==
    LET top == IF t = mappings[1] THEN first ELSE second
        cells == (IF top # 0 THEN {<<0, 0>>} ELSE {})
                     \cup (IF rest[t] # 0 THEN {<<1, 0>>} ELSE {})
    IN  [o \in cells |-> IF o[1] = 0 THEN top ELSE rest[t]]

(* the values of a read, cell by cell *)
ValuesRead(vals) == [o \in DOMAIN vals |-> vals[o].x]

StagingTabs == <<stage, stage2, stageRest>>

(* C26: for each mapping the target range of the staging tab is cleared    *)
(* only after the source values were read successfully and the write       *)
(* follows the clear; a failed source read leaves the staging tab          *)
(* unchanged; after a completed mapping the staging tab holds exactly the  *)
(* source values read, and is empty when the read returned no rows.        *)
C26_Step ==
    /\ StagingTabs' # StagingTabs => job = "update" /\ pc \in {"clear", "write"}
    /\ (pc' = "clear" /\ pc # "clear") => pc = "source" /\ values' = source
    /\ (pc' = "write" /\ pc # "write") =>
           /\ pc = "clear" /\ values' = values /\ mapIdx' = mapIdx
           /\ (IF mapIdx = 1 THEN stage' ELSE stage2') = 0
    /\ (pc = "source" /\ pc' # "clear") => StagingTabs' = StagingTabs
    /\ (job = "update" /\ pc \in {"clear", "write"} /\ pc' = "select") =>
           /\ mapIdx' = mapIdx + 1
           /\ StageContent(CurTarget, stage', stage2', stageRest') = ValuesRead(values)

C26_ExtractionOrdering == [][C26_Step]_vars

(* the copy loop of update_master_tab or the loop of run_freeze is running *)
InChunkLoop ==
    \/ job = "update" /\ pc \in {"fread", "fwrite", "vread", "vwrite"}
    \/ job = "freeze" /\ pc = "f_chunk"

(* iterations of the running loop so far: each one starts with a formula   *)
(* read in update_master_tab and is one paste in run_freeze                *)
Iterations(l) == Cardinality({ i \in 1..Len(l) : l[i].op \in {"fread", "paste"} })

(* C27: for every effective row count and every configured chunk size,    *)
(* 0 and negative values included (they count as 1), each iteration of     *)
(* the chunk loops of update_master_tab and run_freeze moves the row       *)
(* cursor strictly forward, the loops make at most effectiveRowCount - 1   *)
(* iterations, and they come to an end.                                    *)
C27_Step ==
    /\ (job = "update" /\ pc \in {"fread", "fwrite", "vread", "vwrite"}
            /\ Len(log') > Len(log)) =>
          /\ Issued.a = row + 1 /\ row < Issued.b /\ Issued.b <= EffRows
          /\ cfg.chunk_size <= 0 => Issued.b = row + 1
          /\ row' \in {row, Issued.b}
          /\ pc' \in {"fread", "return"} => row' = Issued.b
          /\ pc' = "return" <=> row' = EffRows
          /\ Iterations(log') <= EffRows - 1
    /\ (job = "freeze" /\ pc = "f_chunk" /\ Len(log') > Len(log)) =>
          /\ Issued.a = row + 1 /\ row < Issued.b /\ Issued.b <= FreezeEffRows
          /\ cfg.freeze_chunk <= 0 => Issued.b = row + 1
          /\ pc' = "f_chunk" => row' = Issued.b
          /\ pc' = "f_tab" <=> Issued.b = FreezeEffRows
          /\ Iterations(log') <= FreezeEffRows - 1

C27_ChunkLoopsTerminate == [][C27_Step]_vars /\ (InChunkLoop ~> ~InChunkLoop)

(* a copy loop with a negative chunk size ended after 3 iterations on a    *)
(* tab of 4 rows                                                           *)
C27_Witness ==
    /\ job = "update" /\ pc = "return" /\ cfg.chunk_size < 0
    /\ row = EffRows /\ EffRows = 4 /\ Iterations(log) = 3

====
